---- MODULE Spec2Model ----
(***************************************************************************)
(* A model of the persistence core of in-my-voice.server.golang:           *)
(*   - the Environment registry of package platform (config.go):           *)
(*     loadedConfig, configStack, configChangeActions, PushConfig,         *)
(*     PushAlteredConfig, PopConfig;                                       *)
(*   - the typed key/value operations of platform/orm.go over a Redis      *)
(*     backend: strings, objects (gob-coded records), sets, expiration     *)
(*     and deletion;                                                       *)
(*   - the key types of package storage that the operations are used with. *)
(* Strings are TLA+ strings, concatenated with \o as the code does with +. *)
(***************************************************************************)
EXTENDS Integers, Sequences, FiniteSets, TLC

VARIABLES
    loadedConfig,         \* config.go: var loadedConfig Environment
    configStack,          \* config.go: var configStack []Environment
    configChangeActions,  \* config.go: the names registered in the map
    actionState,          \* what the registered callbacks have written
    osEnv,                \* the process environment variables (os.Getenv)
    panicked,             \* RegisterForConfigChange panicked: the process died
    call,                 \* the last registry call and what it returned
    seen,                 \* caller's notes: GetConfig() before each push
    db,                   \* the Redis backend: key -> entry
    ret,                  \* the last orm.go call and what it returned
    shadow,               \* caller's notes: what was last saved where
    fetch,                \* the goroutine that calls FetchOneBlocking
    scan,                 \* the goroutine that calls MapObjects / MapKeys
    tasks,                \* the goroutines inside the storage package's calls
    monitors              \* startMonitors: its channels and its goroutines

configVars == <<loadedConfig, configStack, configChangeActions, actionState,
                osEnv, panicked, call, seen>>

ormVars == <<db, ret, shadow>>

procVars == <<fetch, scan, tasks, monitors>>

vars == <<configVars, ormVars, procVars>>

-----------------------------------------------------------------------------
(* Bounds of the model.                                                    *)

\* pushes are explored up to this stack depth
MaxStack == 2

-----------------------------------------------------------------------------
(* Environments.  Of the Environment struct the model keeps the two fields *)
(* the registry's clients read: Name and DbKeyPrefix.                      *)

Environment(name, prefix) == [Name |-> name, DbKeyPrefix |-> prefix]

ciConfig == Environment("CI", "c:")

\* the Environment a successful pushEnvConfig builds from os.Getenv
EnvFromOs(vars_) ==
    Environment(vars_.ENVIRONMENT_NAME, vars_.DB_KEY_PREFIX)

\* the variables each environment file sets (godotenvvault.Overload)
FileVars(filename) ==
    CASE filename = ".env" ->
           [ENVIRONMENT_NAME |-> "development", DB_KEY_PREFIX |-> "d:"]
      [] filename = ".env.staging" ->
           [ENVIRONMENT_NAME |-> "staging", DB_KEY_PREFIX |-> "s:"]
      [] filename = ".env.production" ->
           [ENVIRONMENT_NAME |-> "production", DB_KEY_PREFIX |-> "p:"]
      [] filename = ".env.testing" ->
           [ENVIRONMENT_NAME |-> "testing", DB_KEY_PREFIX |-> "t:"]
      [] OTHER ->
           [ENVIRONMENT_NAME |-> "vault", DB_KEY_PREFIX |-> "v:"]

\* names handed to PushConfig; "CI" and "x" are unknown environments
PushNames == {"", "ci", "development", "staging", "CI", "x"}

\* Environments handed to PushAlteredConfig: GetConfig() with a field altered
AlteredEnvs == {Environment("AlteredTestConfig", "c:"),
                Environment("CI", "a:")}

\* names callbacks are registered under
ActionNames == {"test", "study-policies"}

HasPrefix(s, p) == Len(s) >= Len(p) /\ SubSeq(s, 1, Len(p)) = p

-----------------------------------------------------------------------------
(* Change-notification callbacks.  A callback is the one of                *)
(* TestConfigChangeActions: it stores GetConfig().Name + "-test"; the      *)
(* model also notes that it ran.                                           *)

\* the callbacks run before the new Environment is installed
EarlyRunConfigChangeActions(registered, cfg, st) ==
    [val |-> [n \in ActionNames |->
                 IF n \in registered THEN loadedConfig.Name \o "-test"
                                     ELSE st.val[n]],
     ran |-> registered]

runConfigChangeActions(registered, cfg, st) ==
    [val |-> [n \in ActionNames |->
                 IF n \in registered THEN cfg.Name \o "-test" ELSE st.val[n]],
     ran |-> registered]

\* at the start of a call no callback has run yet
Fresh(st) == [st EXCEPT !.ran = {}]

Note(op, arg, err) ==
    [op |-> op, arg |-> arg, err |-> err,
     before |-> loadedConfig, depth |-> Len(configStack),
     expect |-> IF Len(seen) = 0 THEN loadedConfig ELSE seen[Len(seen)]]

-----------------------------------------------------------------------------
(* The registry's operations.                                              *)

\* what a call of the registry leaves alone
ConfigFrame == UNCHANGED <<ormVars, procVars>>

ConfigInit ==
    /\ loadedConfig = ciConfig
    /\ configStack = <<>>
    /\ configChangeActions = {}
    /\ actionState = [val |-> [n \in ActionNames |-> "defaultConfigName"],
                      ran |-> {}]
    /\ osEnv = [ENVIRONMENT_NAME |-> "", DB_KEY_PREFIX |-> ""]
    /\ panicked = FALSE
    /\ call = [op |-> "init", arg |-> "", err |-> FALSE,
               before |-> ciConfig, depth |-> 0, expect |-> ciConfig]
    /\ seen = <<>>

RegisterForConfigChange(name) ==
    /\ ~panicked
    /\ IF name \in configChangeActions
         THEN /\ panicked' = TRUE
              /\ UNCHANGED configChangeActions
         ELSE /\ configChangeActions' = configChangeActions \cup {name}
              /\ UNCHANGED panicked
    /\ call' = Note("RegisterForConfigChange", name, name \in configChangeActions)
    /\ actionState' = Fresh(actionState)
    /\ UNCHANGED <<loadedConfig, configStack, osEnv, seen>>
    /\ ConfigFrame

UnregisterForConfigChange(name) ==
    /\ ~panicked
    /\ configChangeActions' = configChangeActions \ {name}
    /\ call' = Note("UnregisterForConfigChange", name, FALSE)
    /\ actionState' = Fresh(actionState)
    /\ UNCHANGED <<loadedConfig, configStack, osEnv, panicked, seen>>
    /\ ConfigFrame

\* the three statements every successful push ends with
Install(env) ==
    /\ configStack' = Append(configStack, loadedConfig)
    /\ loadedConfig' = env
    /\ actionState' = runConfigChangeActions(configChangeActions, env,
                                             Fresh(actionState))
    /\ seen' = Append(seen, loadedConfig)

PushAlteredConfig(env) ==
    /\ ~panicked
    /\ Len(configStack) < MaxStack
    /\ Install(env)
    /\ call' = Note("PushAlteredConfig", env.Name, FALSE)
    /\ UNCHANGED <<configChangeActions, osEnv, panicked>>
    /\ ConfigFrame

pushCiConfig(name) ==
    /\ Install(ciConfig)
    /\ call' = Note("PushConfig", name, FALSE)
    /\ UNCHANGED <<configChangeActions, osEnv, panicked>>

\* pushEnvConfig growing the stack before it looks at the error
StackFirstPushEnvConfig(name, filename, loaded) ==
    IF ~loaded
      THEN /\ call' = Note("PushConfig", name, TRUE)
           /\ configStack' = Append(configStack, loadedConfig)
           /\ seen' = Append(seen, loadedConfig)
           /\ actionState' = Fresh(actionState)
           /\ UNCHANGED <<loadedConfig, configChangeActions, osEnv, panicked>>
      ELSE /\ osEnv' = FileVars(filename)
           /\ Install(EnvFromOs(FileVars(filename)))
           /\ call' = Note("PushConfig", name, FALSE)
           /\ UNCHANGED <<configChangeActions, panicked>>

\* loaded: FindEnvFile found the file and godotenvvault.Overload read it
pushEnvConfig(name, filename, loaded) ==
    IF ~loaded
      THEN /\ call' = Note("PushConfig", name, TRUE)
           /\ actionState' = Fresh(actionState)
           /\ UNCHANGED <<loadedConfig, configStack, configChangeActions,
                          osEnv, panicked, seen>>
      ELSE /\ osEnv' = FileVars(filename)
           /\ Install(EnvFromOs(FileVars(filename)))
           /\ call' = Note("PushConfig", name, FALSE)
           /\ UNCHANGED <<configChangeActions, panicked>>

PushConfig(name, loaded) ==
    /\ ~panicked
    /\ Len(configStack) < MaxStack
    /\ ConfigFrame
    /\ CASE name = ""            -> pushEnvConfig(name, "", loaded)
         [] HasPrefix(name, "c") -> pushCiConfig(name)
         [] HasPrefix(name, "d") -> pushEnvConfig(name, ".env", loaded)
         [] HasPrefix(name, "s") -> pushEnvConfig(name, ".env.staging", loaded)
         [] HasPrefix(name, "p") -> pushEnvConfig(name, ".env.production", loaded)
         [] HasPrefix(name, "t") -> pushEnvConfig(name, ".env.testing", loaded)
         [] OTHER ->
              /\ call' = Note("PushConfig", name, TRUE)
              /\ actionState' = Fresh(actionState)
              /\ UNCHANGED <<loadedConfig, configStack, configChangeActions,
                             osEnv, panicked, seen>>

\* the Environment PopConfig leaves active
EmptyPopLoaded(cfg, stack) ==
    IF Len(stack) = 0 THEN Environment("", "") ELSE stack[Len(stack)]

OldestPopLoaded(cfg, stack) ==
    IF Len(stack) = 0 THEN cfg ELSE stack[1]

PopLoaded(cfg, stack) ==
    IF Len(stack) = 0 THEN cfg ELSE stack[Len(stack)]

\* the stack PopConfig leaves
PopStack(stack) ==
    IF Len(stack) = 0 THEN stack ELSE SubSeq(stack, 1, Len(stack) - 1)

PopConfig ==
    /\ ~panicked
    /\ loadedConfig' = PopLoaded(loadedConfig, configStack)
    /\ configStack' = PopStack(configStack)
    /\ actionState' =
         IF Len(configStack) = 0
           THEN Fresh(actionState)
           ELSE runConfigChangeActions(configChangeActions, loadedConfig',
                                       Fresh(actionState))
    /\ call' = Note("PopConfig", "", FALSE)
    /\ seen' = IF Len(seen) = 0 THEN seen ELSE SubSeq(seen, 1, Len(seen) - 1)
    /\ UNCHANGED <<configChangeActions, osEnv, panicked>>
    /\ ConfigFrame



-----------------------------------------------------------------------------
(* Values.  A Go string or []byte is either text or a gob stream; gob      *)
(* transmits the fields that are not zero and nothing else.                *)

Raw(s) == [gob |-> FALSE, s |-> s, f |-> <<>>]

Gob(f) == [gob |-> TRUE, s |-> "", f |-> f]

\* LaunchCount values handed in by callers run from 0 to this bound
MaxLaunch == 1

(* Key types and objects.  A key value is [type, nil, f]: its Go type,     *)
(* whether it is a nil pointer, and its fields.                            *)

StorableString(id) ==
    [type |-> "StorableString", nil |-> FALSE, f |-> [id |-> id]]

OrmTestStruct(id, millis, secret) ==
    [type |-> "OrmTestStruct", nil |-> FALSE,
     f |-> [IdField |-> id, CreateDateMillis |-> millis, Secret |-> secret]]

LifecycleData(clientType, clientId, profileId, launchCount) ==
    [type |-> "LifecycleData", nil |-> FALSE,
     f |-> [ClientType |-> clientType, ClientId |-> clientId,
            ProfileId |-> profileId, LaunchCount |-> launchCount,
            LastLaunch |-> 0, LastActive |-> 0, LastShutdown |-> 0]]

TypedLineStat(upn, changes, length) ==
    [type |-> "TypedLineStat", nil |-> FALSE,
     f |-> [Upn |-> upn, Completed |-> 0, Changes |-> changes,
            Length |-> length, Duration |-> 0, From |-> 0]]

SpeechMonitor(profileId, apiKey, nextRenew) ==
    [type |-> "SpeechMonitor", nil |-> FALSE,
     f |-> [ProfileId |-> profileId, ApiKey |-> apiKey, UsedChars |-> 0,
            LimitChars |-> 0, NextCheck |-> 0, NextRenew |-> nextRenew]]

StudyParticipant(upn, memo, assigned, profileId, finished) ==
    [type |-> "StudyParticipant", nil |-> FALSE,
     f |-> [Upn |-> upn, Memo |-> memo, Assigned |-> assigned,
            ProfileId |-> profileId, Started |-> 0, Finished |-> finished,
            ApiKey |-> "", VoiceId |-> "", VoiceName |-> ""]]

\* the zero value of each struct type
Zero(type) ==
    CASE type = "OrmTestStruct" -> OrmTestStruct("", 0, "").f
      [] type = "LifecycleData" -> LifecycleData("", "", "", 0).f
      [] type = "TypedLineStat" -> TypedLineStat("", 0, 0).f
      [] type = "SpeechMonitor" -> SpeechMonitor("", "", 0).f
      [] type = "StudyParticipant" -> StudyParticipant("", "", 0, "", 0).f
      [] OTHER -> [id |-> ""]

NilLifecycleData ==
    [type |-> "LifecycleData", nil |-> TRUE, f |-> Zero("LifecycleData")]

NotifiedSpeechClients(profileId) ==
    [type |-> "NotifiedSpeechClients", nil |-> FALSE, f |-> [id |-> profileId]]

NotifiedFavoritesClients(profileId) ==
    [type |-> "NotifiedFavoritesClients", nil |-> FALSE,
     f |-> [id |-> profileId]]

StoragePrefix(k) ==
    CASE k.type = "StorableString" -> "string:"
      [] k.type = "StorableSet" -> "set:"
      [] k.type = "StorableSortedSet" -> "zset:"
      [] k.type = "StorableList" -> "list:"
      [] k.type = "StorableMap" -> "map:"
      [] k.type = "OrmTestStruct" -> "ormTestPrefix:"
      [] k.type = "LifecycleData" -> "launch-data:"
      [] k.type = "sessionId" -> "session-key:"
      [] k.type = "SpeechMonitor" -> "speech-monitor:"
      [] k.type = "StudyParticipant" -> "study-participant:"
      [] k.type = "TypedLineStatList" -> "typed-line-stat-list:"
      [] k.type = "NotifiedSpeechClients" -> "notified-speech-clients:"
      [] k.type = "NotifiedFavoritesClients" -> "notified-speech-clients:"

StorageId(k) ==
    CASE k.type = "OrmTestStruct" -> k.f.IdField
      [] k.type = "LifecycleData" ->
           IF k.nil THEN "" ELSE k.f.ClientId \o "|" \o k.f.ProfileId
      [] k.type = "SpeechMonitor" -> IF k.nil THEN "" ELSE k.f.ProfileId
      [] k.type = "StudyParticipant" -> IF k.nil THEN "" ELSE k.f.Upn
      [] OTHER -> k.f.id

\* whether the type's FromRedis clears the receiver before decoding
DumpsOldData(type) ==
    type \in {"OrmTestStruct", "TypedLineStat", "SpeechMonitor",
              "StudyParticipant"}

ToRedis(o) ==
    IF o.nil
      THEN [err |-> "gob: cannot encode nil pointer", bytes |-> Raw("")]
      ELSE [err |-> "",
            bytes |-> Gob([n \in {m \in DOMAIN o.f : o.f[m] # Zero(o.type)[m]}
                             |-> o.f[n]])]

\* gob.Decode into the receiver: the fields of the stream are set, all
\* others keep the value they had
Decode(f, b) ==
    [n \in DOMAIN f |-> IF n \in DOMAIN b.f THEN b.f[n] ELSE f[n]]

FromRedis(o, b) ==
    LET start == IF DumpsOldData(o.type) THEN Zero(o.type) ELSE o.f
    IN  IF o.nil \/ ~b.gob
          THEN [err |-> "gob: decode failed", out |-> [o EXCEPT !.f = start]]
          ELSE [err |-> "", out |-> [o EXCEPT !.f = Decode(start, b)]]

-----------------------------------------------------------------------------
(* The backend: the Redis commands orm.go issues.                          *)

EmptyDb == [k \in {} |-> 0]

Put(d, k, e) == [x \in DOMAIN d \cup {k} |-> IF x = k THEN e ELSE d[x]]

Drop(d, k) == [x \in DOMAIN d \ {k} |-> d[x]]

StringEntry(bytes) ==
    [kind |-> "string", bytes |-> bytes, members |-> {}, elems |-> <<>>,
     ttl |-> FALSE]

SetEntry(members) ==
    [kind |-> "set", bytes |-> Raw(""), members |-> members, elems |-> <<>>,
     ttl |-> FALSE]

Cmd(name, key) == [c |-> name, key |-> key]

NoCmd == Cmd("none", "")

RedisNil == "redis: nil"

WrongType == "WRONGTYPE Operation against a key holding the wrong kind of value"

RedisGet(d, key) ==
    IF key \notin DOMAIN d THEN [err |-> RedisNil, bytes |-> Raw("")]
    ELSE IF d[key].kind # "string" THEN [err |-> WrongType, bytes |-> Raw("")]
    ELSE [err |-> "", bytes |-> d[key].bytes]

\* SET with expiration 0: any old value and any time to live are replaced
RedisSet(d, key, bytes) == Put(d, key, StringEntry(bytes))

RedisDel(d, key) == Drop(d, key)

\* EXPIRE: a missing key is left missing; a time to live that is not
\* positive deletes the key at once
RedisExpire(d, key, secs) ==
    IF key \notin DOMAIN d THEN d
    ELSE IF secs <= 0 THEN Drop(d, key)
    ELSE [d EXCEPT ![key].ttl = TRUE]

\* SADD: a missing key becomes a set
RedisSAdd(d, key, members) ==
    IF key \notin DOMAIN d THEN [db |-> Put(d, key, SetEntry(members)), err |-> ""]
    ELSE IF d[key].kind # "set" THEN [db |-> d, err |-> WrongType]
    ELSE [db |-> [d EXCEPT ![key].members = @ \cup members], err |-> ""]

RedisSIsMember(d, key, member) ==
    IF key \notin DOMAIN d THEN [val |-> FALSE, err |-> ""]
    ELSE IF d[key].kind # "set" THEN [val |-> FALSE, err |-> WrongType]
    ELSE [val |-> member \in d[key].members, err |-> ""]

-----------------------------------------------------------------------------
(* orm.go.  Each operation is a function of the backend and of the active  *)
(* Environment; it returns the backend it leaves, its results, and the     *)
(* command it issued.                                                      *)

\* GetDb's second result: the key prefix of the active Environment
GetDb(cfg) == cfg.DbKeyPrefix

\* key := obj.StoragePrefix() + obj.StorageId(), the prefix forgotten
UnprefixedKey(cfg, k) == StoragePrefix(k) \o StorageId(k)

Key(cfg, k) == GetDb(cfg) \o StoragePrefix(k) \o StorageId(k)

SetExpiration(d, cfg, obj, secs) ==
    [db |-> RedisExpire(d, Key(cfg, obj), secs), err |-> "",
     cmd |-> Cmd("EXPIRE", Key(cfg, obj))]

\* at: the time handed in, in seconds from now
SetExpirationAt(d, cfg, obj, at) ==
    [db |-> RedisExpire(d, Key(cfg, obj), at), err |-> "",
     cmd |-> Cmd("EXPIREAT", Key(cfg, obj))]

\* DeleteStorage without its check of the identifier
UncheckedDeleteStorage(d, cfg, obj) ==
    [db |-> RedisDel(d, Key(cfg, obj)), err |-> "",
     cmd |-> Cmd("DEL", Key(cfg, obj))]

\* DeleteStorage computing its key without the Environment's prefix
UnprefixedDeleteStorage(d, cfg, obj) ==
    IF StorageId(obj) = ""
      THEN [db |-> d, err |-> "storable has no ID", cmd |-> NoCmd]
      ELSE [db |-> RedisDel(d, UnprefixedKey(cfg, obj)), err |-> "",
            cmd |-> Cmd("DEL", UnprefixedKey(cfg, obj))]

DeleteStorage(d, cfg, obj) ==
    IF StorageId(obj) = ""
      THEN [db |-> d, err |-> "storable has no ID", cmd |-> NoCmd]
      ELSE [db |-> RedisDel(d, Key(cfg, obj)), err |-> "",
            cmd |-> Cmd("DEL", Key(cfg, obj))]

FetchString(d, cfg, obj) ==
    LET res == RedisGet(d, Key(cfg, obj))
    IN  [val |-> IF res.err # "" THEN Raw("") ELSE res.bytes,
         err |-> IF res.err = RedisNil THEN "" ELSE res.err,
         cmd |-> Cmd("GET", Key(cfg, obj))]

StoreString(d, cfg, obj, val) ==
    [db |-> RedisSet(d, Key(cfg, obj), val), err |-> "",
     cmd |-> Cmd("SET", Key(cfg, obj))]

IsMember(d, cfg, obj, member) ==
    [val |-> RedisSIsMember(d, Key(cfg, obj), member).val,
     err |-> RedisSIsMember(d, Key(cfg, obj), member).err,
     cmd |-> Cmd("SISMEMBER", Key(cfg, obj))]

AddMembers(d, cfg, obj, members) ==
    IF members = {}
      THEN [db |-> d, err |-> "", cmd |-> NoCmd]
      ELSE [db |-> RedisSAdd(d, Key(cfg, obj), members).db,
            err |-> RedisSAdd(d, Key(cfg, obj), members).err,
            cmd |-> Cmd("SADD", Key(cfg, obj))]

NotFoundError == "not found"

\* errors.Is(err, NotFoundError)
IsNotFound(err) == err = NotFoundError

\* LoadValueAtKey handing the backend's redis.Nil on as it is
UnwrappedLoadValueAtKey(d, cfg, k, v) ==
    LET res == RedisGet(d, Key(cfg, k))
    IN  IF res.err # ""
          THEN [err |-> res.err, out |-> v, cmd |-> Cmd("GET", Key(cfg, k))]
          ELSE [err |-> FromRedis(v, res.bytes).err,
                out |-> FromRedis(v, res.bytes).out,
                cmd |-> Cmd("GET", Key(cfg, k))]

LoadValueAtKey(d, cfg, k, v) ==
    LET res == RedisGet(d, Key(cfg, k))
    IN  IF res.err = RedisNil
          THEN [err |-> NotFoundError, out |-> v,
                cmd |-> Cmd("GET", Key(cfg, k))]
        ELSE IF res.err # ""
          THEN [err |-> res.err, out |-> v, cmd |-> Cmd("GET", Key(cfg, k))]
        ELSE [err |-> FromRedis(v, res.bytes).err,
              out |-> FromRedis(v, res.bytes).out,
              cmd |-> Cmd("GET", Key(cfg, k))]

SaveValueAtKey(d, cfg, a, s) ==
    IF ToRedis(s).err # ""
      THEN [db |-> d, err |-> ToRedis(s).err, cmd |-> NoCmd]
      ELSE [db |-> RedisSet(d, Key(cfg, a), ToRedis(s).bytes), err |-> "",
            cmd |-> Cmd("SET", Key(cfg, a))]

LoadObject(d, cfg, obj) == LoadValueAtKey(d, cfg, obj, obj)

SaveObject(d, cfg, obj) == SaveValueAtKey(d, cfg, obj, obj)


-----------------------------------------------------------------------------
(* Calls of orm.go.  Every call runs against the Environment that is       *)
(* active when it is made and leaves its arguments and results in ret.     *)
(* shadow is the caller's own record of what it last saved, and under      *)
(* which Environment, for each (key prefix, key type, identifier).         *)

\* what a call of orm.go leaves alone
OrmFrame == UNCHANGED <<configVars, procVars>>

ShadowKey(cfg, k) == <<cfg.DbKeyPrefix, k.type, StorageId(k)>>

\* the backend key a shadow entry was stored at
TripleKey(t) == t[1] \o StoragePrefix([type |-> t[2]]) \o t[3]

\* a shadow entry: the value written, by which key, under which Environment
Saved(bytes, members, k) ==
    [bytes |-> bytes, members |-> members, env |-> loadedConfig, obj |-> k]

Returned(name, obj, secs, val, err, out, cmd) ==
    [name |-> name, obj |-> obj, secs |-> secs, val |-> val, err |-> err,
     out |-> out, cmd |-> cmd,
     present |-> Key(loadedConfig, obj) \in DOMAIN db]

OrmInit ==
    /\ db = EmptyDb
    /\ shadow = EmptyDb
    /\ ret = [name |-> "init", obj |-> StorableString(""), secs |-> 0,
              val |-> Raw(""), err |-> "", out |-> StorableString(""),
              cmd |-> NoCmd, present |-> FALSE]

CallStoreString(k, val) ==
    LET res == StoreString(db, loadedConfig, k, val)
    IN  /\ db' = res.db
        /\ ret' = Returned("StoreString", k, 0, val, res.err, k, res.cmd)
        /\ shadow' = Put(shadow, ShadowKey(loadedConfig, k),
                         Saved(val, {}, k))
        /\ OrmFrame

CallFetchString(k) ==
    LET res == FetchString(db, loadedConfig, k)
    IN  /\ ret' = Returned("FetchString", k, 0, res.val, res.err, k, res.cmd)
        /\ UNCHANGED <<db, shadow>>
        /\ OrmFrame

CallSaveObject(o) ==
    LET res == SaveObject(db, loadedConfig, o)
    IN  /\ db' = res.db
        /\ ret' = Returned("SaveObject", o, 0, Raw(""), res.err, o, res.cmd)
        /\ shadow' =
             IF res.err = ""
               THEN Put(shadow, ShadowKey(loadedConfig, o),
                        Saved(ToRedis(o).bytes, {}, o))
               ELSE shadow
        /\ OrmFrame

CallLoadObject(o) ==
    LET res == LoadObject(db, loadedConfig, o)
    IN  /\ ret' = Returned("LoadObject", o, 0, Raw(""), res.err, res.out,
                           res.cmd)
        /\ UNCHANGED <<db, shadow>>
        /\ OrmFrame

CallDeleteStorage(k) ==
    LET res == DeleteStorage(db, loadedConfig, k)
    IN  /\ db' = res.db
        /\ ret' = Returned("DeleteStorage", k, 0, Raw(""), res.err, k, res.cmd)
        /\ shadow' = IF res.err = ""
                       THEN Drop(shadow, ShadowKey(loadedConfig, k))
                       ELSE shadow
        /\ OrmFrame

CallSetExpiration(k, secs) ==
    LET res == SetExpiration(db, loadedConfig, k, secs)
    IN  /\ db' = res.db
        /\ ret' = Returned("SetExpiration", k, secs, Raw(""), res.err, k,
                           res.cmd)
        /\ shadow' = IF secs <= 0
                       THEN Drop(shadow, ShadowKey(loadedConfig, k))
                       ELSE shadow
        /\ OrmFrame

CallSetExpirationAt(k, at) ==
    LET res == SetExpirationAt(db, loadedConfig, k, at)
    IN  /\ db' = res.db
        /\ ret' = Returned("SetExpirationAt", k, at, Raw(""), res.err, k,
                           res.cmd)
        /\ shadow' = IF at <= 0
                       THEN Drop(shadow, ShadowKey(loadedConfig, k))
                       ELSE shadow
        /\ OrmFrame

\* the backend drops a key whose time to live has run out
Expire(key) ==
    /\ key \in DOMAIN db
    /\ db[key].ttl
    /\ db' = Drop(db, key)
    /\ shadow' = [t \in {u \in DOMAIN shadow : TripleKey(u) # key} |-> shadow[t]]
    /\ ret' = [name |-> "expire", obj |-> StorableString(""), secs |-> 0,
               val |-> Raw(""), err |-> "", out |-> StorableString(""),
               cmd |-> Cmd("expired", key), present |-> TRUE]
    /\ OrmFrame

\* a FetchOneBlocking caller that has not called yet
IdleFetch ==
    [state |-> "idle", key |-> "", onLeft |-> FALSE, timeout |-> 0,
     val |-> "", err |-> "", timedOut |-> FALSE, served |-> FALSE,
     before |-> <<>>, after |-> <<>>]

\* an error made with %v where the code has %w: nothing is wrapped
FlatErr(msg, wraps) ==
    [msg |-> msg, wraps |-> ""]

\* an error value: its own text and the error it wraps with %w, if any
Err(msg, wraps) ==
    [msg |-> msg, wraps |-> wraps]

NoErr == Err("", "")

\* a caller of MapObjects, MapKeys or MapStringsAtKeys that has not called
IdleScan ==
    [state |-> "idle", op |-> "", k |-> StorableString(""),
     proto |-> StorableString(""), cb |-> [kind |-> "", at |-> ""],
     order |-> <<>>, cursor |-> 0, page |-> <<>>, visits |-> <<>>,
     err |-> NoErr, atStart |-> {}, atEnd |-> {}, touched |-> {}]

\* startMonitors has returned: stopChannel is open, updateChannel holds the
\* first channel made (channel 0), which is closed, and the goroutine it
\* started is about to start the first update
StartedMonitors ==
    [stopClosed |-> FALSE, updateChannel |-> 0, written |-> {0},
     closed |-> {0}, loop |-> "spawn", ticks |-> 0, updates |-> <<>>,
     stop |-> [pc |-> "idle", ch |-> 0, err |-> ""]]

\* the goroutines that may be inside a call of the storage package
Tasks == {1, 2}

IdleTask == [pc |-> "idle"]

ProcInit ==
    /\ fetch = IdleFetch
    /\ scan = IdleScan
    /\ tasks = [t \in Tasks |-> IdleTask]
    /\ monitors = StartedMonitors

Init == ConfigInit /\ OrmInit /\ ProcInit

\* what callers hand in
StringKeys == {StorableString(""), StorableString("ormTestString")}

Texts == {"ormTestString", "value1"}

OrmTestStructs ==
    {OrmTestStruct("", 0, "")} \cup
    {OrmTestStruct("v1", 0, secret) : secret \in {"", "shh!"}}

LifecycleDatas ==
    {NilLifecycleData} \cup
    {LifecycleData("", "c1", "p1", n) : n \in 0 .. MaxLaunch}

Objects == OrmTestStructs \cup LifecycleDatas

\* keys whose StorageId() is empty
EmptyIdKeys == {k \in StringKeys \cup Objects : StorageId(k) = ""}

Seconds == {0, 1}

\* the Environment registry on its own
ConfigNext ==
    \/ \E name \in ActionNames : RegisterForConfigChange(name)
    \/ \E name \in ActionNames : UnregisterForConfigChange(name)
    \/ \E env \in AlteredEnvs : PushAlteredConfig(env)
    \/ \E name \in PushNames, loaded \in BOOLEAN : PushConfig(name, loaded)
    \/ PopConfig

SpecConfig == Init /\ [][ConfigNext]_vars

\* objects under the baseline Environment: saved, loaded, deleted, expired
OrmNext ==
    \/ \E o \in Objects : CallSaveObject(o)
    \/ \E o \in Objects : CallLoadObject(o)
    \/ \E o \in Objects : CallDeleteStorage(o)
    \/ \E o \in Objects, secs \in Seconds : CallSetExpiration(o, secs)
    \/ \E key \in DOMAIN db : Expire(key)

Spec == Init /\ [][OrmNext]_vars

\* strings and keys without an identifier: stored, fetched, deleted, expired
ExpireNext ==
    \/ \E k \in StringKeys, v \in Texts : CallStoreString(k, Raw(v))
    \/ \E k \in StringKeys : CallFetchString(k)
    \/ \E k \in StringKeys \cup EmptyIdKeys : CallDeleteStorage(k)
    \/ \E k \in StringKeys \cup EmptyIdKeys, secs \in Seconds :
          CallSetExpiration(k, secs)
    \/ \E k \in StringKeys \cup EmptyIdKeys, at \in {-1, 1} :
          CallSetExpirationAt(k, at)
    \/ \E key \in DOMAIN db : Expire(key)

SpecExpire == Init /\ [][ExpireNext]_vars


-----------------------------------------------------------------------------
(* storage/lifecycle.go: which clients of a profile have been told of the  *)
(* latest speech-settings update, and of the latest favorites update.      *)

NotifiedKey(kind, profileId) ==
    IF kind = "Speech" THEN NotifiedSpeechClients(profileId)
                       ELSE NotifiedFavoritesClients(profileId)

\* ProfileClientSpeechDidUpdate, ProfileClientFavoritesDidUpdate
ProfileClientDidUpdate(kind, profileId, clientId) ==
    LET n == NotifiedKey(kind, profileId)
        del == DeleteStorage(db, loadedConfig, n)
        add == AddMembers(del.db, loadedConfig, n, {clientId})
    IN  /\ db' = IF del.err # "" THEN db ELSE add.db
        /\ ret' = Returned(kind \o "DidUpdate", n, 0, Raw(clientId),
                           IF del.err # "" THEN del.err ELSE add.err, n,
                           IF del.err # "" THEN del.cmd ELSE add.cmd)
        /\ shadow' =
             IF del.err # "" THEN shadow
             ELSE IF add.err # "" THEN Drop(shadow, ShadowKey(loadedConfig, n))
             ELSE Put(shadow, ShadowKey(loadedConfig, n),
                      Saved(Raw(""), {clientId}, n))
        /\ OrmFrame

\* ProfileClientSpeechNeedsNotification, ProfileClientFavoritesNeedsNotification
ProfileClientNeedsNotification(kind, profileId, clientId) ==
    LET n == NotifiedKey(kind, profileId)
        res == IsMember(db, loadedConfig, n, clientId)
    IN  /\ ret' = Returned(kind \o "NeedsNotification", n,
                           IF res.err = "" /\ ~res.val THEN 1 ELSE 0,
                           Raw(clientId), res.err, n, res.cmd)
        /\ UNCHANGED <<db, shadow>>
        /\ OrmFrame

\* ProfileClientSpeechWasNotified, ProfileClientFavoritesWasNotified
ProfileClientWasNotified(kind, profileId, clientId) ==
    LET n == NotifiedKey(kind, profileId)
        add == AddMembers(db, loadedConfig, n, {clientId})
        t == ShadowKey(loadedConfig, n)
    IN  /\ db' = add.db
        /\ ret' = Returned(kind \o "WasNotified", n, 0, Raw(clientId),
                           add.err, n, add.cmd)
        /\ shadow' =
             IF add.err # "" THEN shadow
             ELSE Put(shadow, t,
                      Saved(Raw(""),
                            (IF t \in DOMAIN shadow THEN shadow[t].members
                                                    ELSE {}) \cup {clientId},
                            n))
        /\ OrmFrame

UpdateKinds == {"Speech", "Favorites"}

ProfileIds == {"p1"}

ClientIds == {"a", "b"}

NotifyNext ==
    \/ \E kind \in UpdateKinds, p \in ProfileIds, c \in ClientIds :
          ProfileClientDidUpdate(kind, p, c)
    \/ \E kind \in UpdateKinds, p \in ProfileIds, c \in ClientIds :
          ProfileClientNeedsNotification(kind, p, c)
    \/ \E kind \in UpdateKinds, p \in ProfileIds, c \in ClientIds :
          ProfileClientWasNotified(kind, p, c)

SpecNotify == Init /\ [][NotifyNext]_vars

-----------------------------------------------------------------------------
(* orm.go under a changing Environment.                                    *)

EnvStringKeys == {StorableString("ormTestString")}

EnvTexts == {"ormTestString"}

EnvObjects == {OrmTestStruct("v1", 0, "shh!")}

EnvNext ==
    \/ \E env \in AlteredEnvs : PushAlteredConfig(env)
    \/ PushConfig("ci", TRUE)
    \/ PopConfig
    \/ \E k \in EnvStringKeys, v \in EnvTexts : CallStoreString(k, Raw(v))
    \/ \E k \in EnvStringKeys : CallFetchString(k)
    \/ \E o \in EnvObjects : CallSaveObject(o)
    \/ \E o \in EnvObjects : CallLoadObject(o)
    \/ \E k \in EnvStringKeys \cup EnvObjects : CallDeleteStorage(k)

SpecEnv == Init /\ [][EnvNext]_vars

-----------------------------------------------------------------------------
(* The value codec on its own: RedisValueTester hands the bytes of one     *)
(* value to the FromRedis of another value of the same type.               *)

CodecValues ==
    {OrmTestStruct(id, millis, secret) :
        id \in {"v1", "v2"}, millis \in {0, 1}, secret \in {"", "shh!"}} \cup
    {LifecycleData(clientType, "c1", profileId, n) :
        clientType \in {"", "ios"}, profileId \in {"p1", "p2"},
        n \in 0 .. MaxLaunch}

\* ret.obj is v2 as handed in, ret.from is v1, ret.out is v2 at the end
RedisValueTester(v1, v2) ==
    /\ v1.type = v2.type
    /\ v1 # v2
    /\ ret' = ("from" :> v1) @@
              Returned("RedisValueTester", v2, 0, ToRedis(v1).bytes,
                       IF ToRedis(v1).err # "" THEN ToRedis(v1).err
                       ELSE FromRedis(v2, ToRedis(v1).bytes).err,
                       IF ToRedis(v1).err # "" THEN v2
                       ELSE FromRedis(v2, ToRedis(v1).bytes).out,
                       NoCmd)
    /\ UNCHANGED <<db, shadow>>
    /\ OrmFrame

CodecNext == \E v1 \in CodecValues, v2 \in CodecValues : RedisValueTester(v1, v2)

SpecCodec == Init /\ [][CodecNext]_vars

-----------------------------------------------------------------------------
(* Sorted sets.  A sorted set is kept as its set of <<member, score>>      *)
(* pairs; the backend drops a sorted set that has no member left.          *)

StorableSortedSet(id) ==
    [type |-> "StorableSortedSet", nil |-> FALSE, f |-> [id |-> id]]

ZSetEntry(pairs) ==
    [kind |-> "zset", bytes |-> Raw(""), members |-> pairs, elems |-> <<>>,
     ttl |-> FALSE]

Without(pairs, member) == {p \in pairs : p[1] # member}

\* ZADD: the member's score is set, whether it had one or not
RedisZAdd(d, key, score, member) ==
    IF key \notin DOMAIN d
      THEN [db |-> Put(d, key, ZSetEntry({<<member, score>>})), err |-> ""]
    ELSE IF d[key].kind # "zset" THEN [db |-> d, err |-> WrongType]
    ELSE [db |-> [d EXCEPT ![key].members =
                     Without(@, member) \cup {<<member, score>>}],
          err |-> ""]

RedisZRem(d, key, member) ==
    IF key \notin DOMAIN d THEN [db |-> d, err |-> ""]
    ELSE IF d[key].kind # "zset" THEN [db |-> d, err |-> WrongType]
    ELSE IF Without(d[key].members, member) = {}
      THEN [db |-> Drop(d, key), err |-> ""]
    ELSE [db |-> [d EXCEPT ![key].members = Without(@, member)], err |-> ""]

\* ZSCORE answers nil for a missing key and for a missing member; the
\* client library hands nil on as the error redis.Nil
RedisZScore(d, key, member) ==
    IF key \notin DOMAIN d THEN [val |-> 0, err |-> RedisNil]
    ELSE IF d[key].kind # "zset" THEN [val |-> 0, err |-> WrongType]
    ELSE IF \E p \in d[key].members : p[1] = member
      THEN [val |-> (CHOOSE p \in d[key].members : p[1] = member)[2],
            err |-> ""]
    ELSE [val |-> 0, err |-> RedisNil]

AddScoredMember(d, cfg, obj, score, member) ==
    [db |-> RedisZAdd(d, Key(cfg, obj), score, member).db,
     err |-> RedisZAdd(d, Key(cfg, obj), score, member).err,
     cmd |-> Cmd("ZADD", Key(cfg, obj))]

RemoveScoredMember(d, cfg, obj, member) ==
    [db |-> RedisZRem(d, Key(cfg, obj), member).db,
     err |-> RedisZRem(d, Key(cfg, obj), member).err,
     cmd |-> Cmd("ZREM", Key(cfg, obj))]

GetMemberScore(d, cfg, obj, member) ==
    LET res == RedisZScore(d, Key(cfg, obj), member)
    IN  [val |-> IF res.err # "" THEN 0 ELSE res.val,
         err |-> res.err,
         cmd |-> Cmd("ZSCORE", Key(cfg, obj))]

CallAddScoredMember(k, score, member) ==
    LET res == AddScoredMember(db, loadedConfig, k, score, member)
    IN  /\ db' = res.db
        /\ ret' = Returned("AddScoredMember", k, score, Raw(member), res.err,
                           k, res.cmd)
        /\ UNCHANGED shadow
        /\ OrmFrame

CallRemoveScoredMember(k, member) ==
    LET res == RemoveScoredMember(db, loadedConfig, k, member)
    IN  /\ db' = res.db
        /\ ret' = Returned("RemoveScoredMember", k, 0, Raw(member), res.err,
                           k, res.cmd)
        /\ UNCHANGED shadow
        /\ OrmFrame

CallGetMemberScore(k, member) ==
    LET res == GetMemberScore(db, loadedConfig, k, member)
    IN  /\ ret' = Returned("GetMemberScore", k, res.val, Raw(member), res.err,
                           k, res.cmd)
        /\ UNCHANGED <<db, shadow>>
        /\ OrmFrame

SortedSetKeys == {StorableSortedSet("ormTestSortedSet")}

SortedMembers == {"a", "b", "c"}

Scores == {1, 2, 3}

SortedNext ==
    \/ \E k \in SortedSetKeys, sc \in Scores, m \in SortedMembers :
          CallAddScoredMember(k, sc, m)
    \/ \E k \in SortedSetKeys, m \in SortedMembers :
          CallRemoveScoredMember(k, m)
    \/ \E k \in SortedSetKeys, m \in SortedMembers : CallGetMemberScore(k, m)
    \/ \E k \in SortedSetKeys : CallDeleteStorage(k)

SpecSorted == Init /\ [][SortedNext]_vars

-----------------------------------------------------------------------------
(* Lists.  A list is kept as the sequence of its elements, left end first; *)
(* the backend drops a list that has no element left.                      *)

\* the lists of the backend hold at most this many elements together
MaxList == 3

StorableList(id) == [type |-> "StorableList", nil |-> FALSE, f |-> [id |-> id]]

ListEntry(elems) ==
    [kind |-> "list", bytes |-> Raw(""), members |-> {}, elems |-> elems,
     ttl |-> FALSE]

Reverse(seq) == [i \in 1 .. Len(seq) |-> seq[Len(seq) + 1 - i]]

\* the elements at a key: none when the key is missing
ListOf(d, key) ==
    IF key \in DOMAIN d /\ d[key].kind = "list" THEN d[key].elems ELSE <<>>

\* how many list elements the keys hold together
RECURSIVE Stored(_, _)
Stored(d, keys) ==
    IF keys = {} THEN 0
    ELSE LET k == CHOOSE x \in keys : TRUE
         IN  Len(d[k].elems) + Stored(d, keys \ {k})

EndOf(list, side) == IF side = "left" THEN list[1] ELSE list[Len(list)]

PopEnd(list, side) ==
    IF side = "left" THEN SubSeq(list, 2, Len(list))
                     ELSE SubSeq(list, 1, Len(list) - 1)

PushEnd(list, side, e) == IF side = "left" THEN <<e>> \o list ELSE list \o <<e>>

PutList(d, key, list) ==
    IF list = <<>> THEN Drop(d, key) ELSE Put(d, key, ListEntry(list))

\* LPUSH puts the members at the left end one after the other, RPUSH at the
\* right end
RedisPush(d, key, onLeft, members) ==
    IF key \in DOMAIN d /\ d[key].kind # "list"
      THEN [db |-> d, err |-> WrongType]
      ELSE [db |-> PutList(d, key,
                           IF onLeft THEN Reverse(members) \o ListOf(d, key)
                                     ELSE ListOf(d, key) \o members),
            err |-> ""]

\* LMOVE: one command pops at one end of src and pushes at one end of dst;
\* nil, handed on as redis.Nil, when src has no element
RedisLMove(d, src, dst, srcSide, dstSide) ==
    IF src \notin DOMAIN d THEN [db |-> d, val |-> "", err |-> RedisNil]
    ELSE IF d[src].kind # "list" \/ (dst \in DOMAIN d /\ d[dst].kind # "list")
      THEN [db |-> d, val |-> "", err |-> WrongType]
    ELSE LET e == EndOf(d[src].elems, srcSide)
             rest == PopEnd(d[src].elems, srcSide)
         IN  [db |-> IF src = dst
                       THEN PutList(d, src, PushEnd(rest, dstSide, e))
                       ELSE PutList(PutList(d, src, rest), dst,
                                    PushEnd(ListOf(d, dst), dstSide, e)),
              val |-> e, err |-> ""]

PushRange(d, cfg, obj, onLeft, members) ==
    [db |-> RedisPush(d, Key(cfg, obj), onLeft, members).db,
     err |-> RedisPush(d, Key(cfg, obj), onLeft, members).err,
     cmd |-> Cmd(IF onLeft THEN "LPUSH" ELSE "RPUSH", Key(cfg, obj))]

Side(left) == IF left THEN "left" ELSE "right"

\* MoveOne taking the element from the end of src it is to be put at in dst
SwappedMoveOne(d, cfg, src, dst, srcLeft, dstLeft) ==
    LET res == RedisLMove(d, Key(cfg, src), Key(cfg, dst),
                          Side(dstLeft), Side(dstLeft))
    IN  [db |-> res.db, val |-> IF res.err # "" THEN "" ELSE res.val,
         err |-> res.err, cmd |-> Cmd("LMOVE", Key(cfg, src))]

MoveOne(d, cfg, src, dst, srcLeft, dstLeft) ==
    LET res == RedisLMove(d, Key(cfg, src), Key(cfg, dst),
                          Side(srcLeft), Side(dstLeft))
    IN  [db |-> res.db, val |-> IF res.err # "" THEN "" ELSE res.val,
         err |-> res.err, cmd |-> Cmd("LMOVE", Key(cfg, src))]

\* FetchOneBlocking popping and pushing at the same end
SameSides(onLeft) ==
    IF onLeft THEN [src |-> "left", dst |-> "left"]
              ELSE [src |-> "right", dst |-> "right"]

\* the ends FetchOneBlocking hands to BLMOVE
FetchSides(onLeft) ==
    IF onLeft THEN [src |-> "left", dst |-> "right"]
              ELSE [src |-> "right", dst |-> "left"]

\* FetchOneBlocking answering a redis.Nil with an empty string and no error
SilentFetchResult(res) ==
    IF res.err = RedisNil THEN [val |-> "", err |-> ""]
    ELSE IF res.err # "" THEN [val |-> "", err |-> res.err]
    ELSE [val |-> res.val, err |-> ""]

\* what FetchOneBlocking returns for the answer of BLMOVE
FetchResult(res) ==
    IF res.err # "" THEN [val |-> "", err |-> res.err]
                    ELSE [val |-> res.val, err |-> ""]

\* the caller of FetchOneBlocking once BLMOVE has answered
Fetched(f, d, res, timedOut) ==
    [f EXCEPT !.state = "returned",
              !.val = FetchResult(res).val,
              !.err = FetchResult(res).err,
              !.timedOut = timedOut,
              !.before = ListOf(d, f.key),
              !.after = ListOf(res.db, f.key)]

\* a backend that leaves a blocked BLMOVE blocked when elements arrive
NoServe(d, f) ==
    [db |-> d, fetch |-> f]

\* the backend answers a blocked BLMOVE as part of the command that gives
\* its list an element
Serve(d, f) ==
    IF f.state = "blocked" /\ ListOf(d, f.key) # <<>>
      THEN LET res == RedisLMove(d, f.key, f.key, FetchSides(f.onLeft).src,
                                 FetchSides(f.onLeft).dst)
           IN  [db |-> res.db,
                fetch |-> [Fetched(f, d, res, FALSE) EXCEPT !.served = TRUE]]
      ELSE [db |-> d, fetch |-> f]

CallPushRange(k, onLeft, members) ==
    LET res == PushRange(db, loadedConfig, k, onLeft, members)
        served == Serve(res.db, fetch)
    IN  /\ Stored(db, DOMAIN db) + Len(members) <= MaxList
        /\ db' = served.db
        /\ fetch' = served.fetch
        /\ ret' = [members |-> members, onLeft |-> onLeft] @@
                  Returned("PushRange", k, 0, Raw(""), res.err, k, res.cmd)
        /\ UNCHANGED <<shadow, configVars, scan, tasks, monitors>>

CallMoveOne(src, dst, srcLeft, dstLeft) ==
    LET res == MoveOne(db, loadedConfig, src, dst, srcLeft, dstLeft)
        served == Serve(res.db, fetch)
    IN  /\ db' = served.db
        /\ fetch' = served.fetch
        /\ ret' = [srcLeft |-> srcLeft, dstLeft |-> dstLeft,
                   srcBefore |-> ListOf(db, Key(loadedConfig, src)),
                   dstBefore |-> ListOf(db, Key(loadedConfig, dst))] @@
                  Returned("MoveOne", src, 0, Raw(res.val), res.err, dst,
                           res.cmd)
        /\ UNCHANGED <<shadow, configVars, scan, tasks, monitors>>

\* the call of FetchOneBlocking: BLMOVE answers at once when the list has an
\* element and otherwise leaves the caller blocked
CallFetchOneBlocking(k, onLeft, timeout) ==
    LET key == Key(loadedConfig, k)
        res == RedisLMove(db, key, key, FetchSides(onLeft).src,
                          FetchSides(onLeft).dst)
        f == [IdleFetch EXCEPT !.key = key, !.onLeft = onLeft,
                               !.timeout = timeout]
    IN  /\ fetch.state # "blocked"
        /\ db' = res.db
        /\ fetch' = IF res.err = RedisNil
                      THEN [f EXCEPT !.state = "blocked"]
                      ELSE Fetched(f, db, res, FALSE)
        /\ ret' = Returned("FetchOneBlocking", k, timeout, Raw(""), "", k,
                           Cmd("BLMOVE", key))
        /\ UNCHANGED <<shadow, configVars, scan, tasks, monitors>>

\* the timeout of a blocked BLMOVE runs out: it answers nil; timeout 0
\* blocks for ever
FetchTimeout ==
    /\ fetch.state = "blocked"
    /\ fetch.timeout > 0
    /\ fetch' = Fetched(fetch, db, [db |-> db, val |-> "", err |-> RedisNil],
                        TRUE)
    /\ UNCHANGED <<ormVars, configVars, scan, tasks, monitors>>

ListKeys == {StorableList("ormTestList"), StorableList("ormTestList2")}

PushMembers == {<<"a", "b", "c">>, <<"|">>}

\* what TestMoveRange pushes
MoveMembers == {<<"a", "b", "c">>}

Timeouts == {0, 2}

\* moves between lists, no caller of FetchOneBlocking
ListNext ==
    \/ \E k \in ListKeys, onLeft \in BOOLEAN, members \in MoveMembers :
          CallPushRange(k, onLeft, members)
    \/ \E src \in ListKeys, dst \in ListKeys, srcLeft \in BOOLEAN,
          dstLeft \in BOOLEAN : CallMoveOne(src, dst, srcLeft, dstLeft)
    \/ \E k \in ListKeys : CallDeleteStorage(k)

SpecList == Init /\ [][ListNext]_vars

FetchKeys == {StorableList("ormTestList")}

\* one list, a goroutine that calls FetchOneBlocking and one that pushes
FetchNext ==
    \/ \E k \in FetchKeys, onLeft \in BOOLEAN, members \in PushMembers :
          CallPushRange(k, onLeft, members)
    \/ \E k \in FetchKeys, onLeft \in BOOLEAN, timeout \in Timeouts :
          CallFetchOneBlocking(k, onLeft, timeout)
    \/ FetchTimeout
    \/ \E k \in FetchKeys : CallDeleteStorage(k)

SpecFetch == Init /\ [][FetchNext]_vars

-----------------------------------------------------------------------------
(* Scans: MapKeys, MapStringsAtKeys, MapValuesAtKeys / MapObjects.  A scan *)
(* is a run of SCAN commands, each answering the keys of the next buckets  *)
(* of the backend that match prefix + StoragePrefix() + "*"; between two   *)
(* steps of a scan other goroutines may run.                               *)

\* buckets the backend walks per SCAN command
ScanCount == 1

FamilyPrefix(cfg, k) == GetDb(cfg) \o StoragePrefix(k)

TrimPrefix(key, p) ==
    IF HasPrefix(key, p) THEN SubSeq(key, Len(p) + 1, Len(key)) ELSE key

\* the identifiers of the entries that match the pattern of a scan
FamilyIds(d, cfg, k) ==
    {TrimPrefix(key, FamilyPrefix(cfg, k)) :
        key \in {x \in DOMAIN d : HasPrefix(x, FamilyPrefix(cfg, k))}}

\* the identifiers a family's entries are stored under
ScanIds(k) ==
    CASE k.type = "OrmTestStruct" -> {"v1", "v2"}
      [] k.type = "LifecycleData" -> {"c1|p1", "c1|p2"}

\* the orders in which the backend's buckets may hold a family's keys
Orders(ids) ==
    {q \in [1 .. Cardinality(ids) -> ids] :
        \A i \in DOMAIN q : \A j \in DOMAIN q : i # j => q[i] # q[j]}

Min(a, b) == IF a < b THEN a ELSE b

\* a backend whose cursor counts the keys that are present, not the buckets
ShiftingRedisScan(d, prefix, order, cursor, count) ==
    LET ids == SelectSeq(order, LAMBDA id : (prefix \o id) \in DOMAIN d)
        hi == Min(cursor + count, Len(ids))
    IN  [page |-> [i \in 1 .. hi - Min(cursor, hi) |->
                      prefix \o ids[Min(cursor, hi) + i]],
         cursor |-> IF hi >= Len(ids) THEN Len(order) ELSE hi]

\* SCAN: the keys present in the next count buckets, and the new cursor
RedisScan(d, prefix, order, cursor, count) ==
    LET hi == Min(cursor + count, Len(order))
        ids == SelectSeq(SubSeq(order, cursor + 1, hi),
                         LAMBDA id : (prefix \o id) \in DOMAIN d)
    IN  [page |-> [i \in 1 .. Len(ids) |-> prefix \o ids[i]], cursor |-> hi]

CallbackError == "callback failed"

\* the callbacks handed to a scan: one that takes note of the entry, one
\* that deletes the entry it is handed (the mappers of
\* TestSaveMapDeleteOrmTester and TestMapKeys), one that fails at an entry
Callback(d, cfg, sc, key, proto) ==
    IF sc.cb.kind = "delete"
      THEN IF sc.op = "MapObjects"
             THEN [db |-> DeleteStorage(d, cfg, proto).db,
                   err |-> DeleteStorage(d, cfg, proto).err]
             ELSE [db |-> RedisDel(d, key), err |-> ""]
    ELSE IF sc.cb.kind = "fail" /\
            TrimPrefix(key, FamilyPrefix(cfg, sc.k)) = sc.cb.at
      THEN [db |-> d, err |-> CallbackError]
    ELSE [db |-> d, err |-> ""]

\* MapKeys: the callback gets the identifier
VisitKey(d, cfg, sc, key) ==
    LET cb == Callback(d, cfg, sc, key, sc.proto)
    IN  [db |-> cb.db, proto |-> sc.proto, called |-> TRUE, val |-> Raw(""),
         err |-> IF cb.err # "" THEN Err("process key", cb.err) ELSE NoErr]

\* MapStringsAtKeys: the callback gets the identifier and the stored string
VisitString(d, cfg, sc, key) ==
    LET get == RedisGet(d, key)
        cb == Callback(d, cfg, sc, key, sc.proto)
    IN  IF get.err # ""
          THEN [db |-> d, proto |-> sc.proto, called |-> FALSE,
                val |-> Raw(""), err |-> Err("fetch key", get.err)]
          ELSE [db |-> cb.db, proto |-> sc.proto, called |-> TRUE,
                val |-> get.bytes,
                err |-> IF cb.err # "" THEN Err("process key", cb.err)
                                       ELSE NoErr]

\* MapValuesAtKeys: the entry is decoded into the prototype, which the
\* callback then reads
VisitValue(d, cfg, sc, key) ==
    LET get == RedisGet(d, key)
        fr == FromRedis(sc.proto, get.bytes)
        cb == Callback(d, cfg, sc, key, fr.out)
    IN  IF get.err # ""
          THEN [db |-> d, proto |-> sc.proto, called |-> FALSE,
                val |-> sc.proto, err |-> Err("fetch key", get.err)]
        ELSE IF fr.err # ""
          THEN [db |-> d, proto |-> fr.out, called |-> FALSE,
                val |-> fr.out, err |-> Err("unmarshal key", fr.err)]
        ELSE [db |-> cb.db, proto |-> fr.out, called |-> TRUE,
              val |-> fr.out,
              err |-> IF cb.err # "" THEN Err("process key", cb.err)
                                     ELSE NoErr]

Visit(d, cfg, sc, key) ==
    CASE sc.op = "MapKeys" -> VisitKey(d, cfg, sc, key)
      [] sc.op = "MapStringsAtKeys" -> VisitString(d, cfg, sc, key)
      [] sc.op = "MapObjects" -> VisitValue(d, cfg, sc, key)

\* the call: db.Scan(ctx, 0, pattern, 20) sends the first SCAN
ScanStart(op, k, cb) ==
    /\ scan.state # "running"
    /\ \E order \in Orders(ScanIds(k)) :
         LET first == RedisScan(db, FamilyPrefix(loadedConfig, k), order, 0,
                                ScanCount)
         IN  scan' = [IdleScan EXCEPT
                        !.state = "running", !.op = op, !.k = k, !.proto = k,
                        !.cb = cb, !.order = order, !.cursor = first.cursor,
                        !.page = first.page,
                        !.atStart = FamilyIds(db, loadedConfig, k)]
    /\ UNCHANGED <<ormVars, configVars, fetch, tasks, monitors>>

\* iter.Next with the page used up and the cursor not back at 0
ScanPage ==
    /\ scan.state = "running"
    /\ scan.page = <<>>
    /\ scan.cursor < Len(scan.order)
    /\ LET next == RedisScan(db, FamilyPrefix(loadedConfig, scan.k),
                             scan.order, scan.cursor, ScanCount)
       IN  scan' = [scan EXCEPT !.page = next.page, !.cursor = next.cursor]
    /\ UNCHANGED <<ormVars, configVars, fetch, tasks, monitors>>

\* the body of the loop for the next key of the page
ScanVisit ==
    /\ scan.state = "running"
    /\ scan.page # <<>>
    /\ LET key == Head(scan.page)
           id == TrimPrefix(key, FamilyPrefix(loadedConfig, scan.k))
           r == Visit(db, loadedConfig, scan, key)
       IN  /\ db' = r.db
           /\ shadow' = IF r.db # db
                          THEN Drop(shadow, <<loadedConfig.DbKeyPrefix,
                                              scan.k.type, id>>)
                          ELSE shadow
           /\ scan' = [scan EXCEPT
                         !.page = Tail(@),
                         !.proto = r.proto,
                         !.visits = IF r.called
                                      THEN Append(@, [id |-> id, val |-> r.val])
                                      ELSE @,
                         !.err = r.err,
                         !.state = IF r.err # NoErr THEN "done" ELSE @,
                         !.atEnd = IF r.err # NoErr
                                     THEN FamilyIds(r.db, loadedConfig, scan.k)
                                     ELSE @]
    /\ UNCHANGED <<ret, configVars, fetch, tasks, monitors>>

\* iter.Next answers false: return nil
ScanEnd ==
    /\ scan.state = "running"
    /\ scan.page = <<>>
    /\ scan.cursor >= Len(scan.order)
    /\ scan' = [scan EXCEPT !.state = "done",
                            !.atEnd = FamilyIds(db, loadedConfig, scan.k)]
    /\ UNCHANGED <<ormVars, configVars, fetch, tasks, monitors>>

\* writes by the goroutine itself between its scans, for the next scan
QuietSave(o) ==
    LET res == SaveObject(db, loadedConfig, o)
    IN  /\ scan.state # "running"
        /\ db' = res.db
        /\ shadow' = Put(shadow, ShadowKey(loadedConfig, o),
                         Saved(ToRedis(o).bytes, {}, o))
        /\ scan' = IdleScan
        /\ UNCHANGED <<ret, configVars, fetch, tasks, monitors>>

QuietDelete(k) ==
    LET res == DeleteStorage(db, loadedConfig, k)
    IN  /\ scan.state # "running"
        /\ db' = res.db
        /\ shadow' = Drop(shadow, ShadowKey(loadedConfig, k))
        /\ scan' = IdleScan
        /\ UNCHANGED <<ret, configVars, fetch, tasks, monitors>>

\* writes by another goroutine while a scan is running
RaceSave(o) ==
    LET res == SaveObject(db, loadedConfig, o)
    IN  /\ scan.state = "running"
        /\ o.type = scan.k.type
        /\ db' = res.db
        /\ shadow' = Put(shadow, ShadowKey(loadedConfig, o),
                         Saved(ToRedis(o).bytes, {}, o))
        /\ scan' = [scan EXCEPT !.touched = @ \cup {StorageId(o)}]
        /\ UNCHANGED <<ret, configVars, fetch, tasks, monitors>>

RaceDelete(k) ==
    LET res == DeleteStorage(db, loadedConfig, k)
    IN  /\ scan.state = "running"
        /\ k.type = scan.k.type
        /\ db' = res.db
        /\ shadow' = Drop(shadow, ShadowKey(loadedConfig, k))
        /\ scan' = [scan EXCEPT !.touched = @ \cup {StorageId(k)}]
        /\ UNCHANGED <<ret, configVars, fetch, tasks, monitors>>

\* the prototypes handed to a scan
ScanProtos ==
    {OrmTestStruct("value doesn't matter", 0, ""), LifecycleData("", "", "", 0)}

\* the objects saved for the scans
ScanObjects ==
    {OrmTestStruct("v1", 1, ""), OrmTestStruct("v2", 0, "shh!"),
     LifecycleData("", "c1", "p1", 1), LifecycleData("", "c1", "p2", 0)}

ScanCallbacks(k) ==
    {[kind |-> "note", at |-> ""], [kind |-> "delete", at |-> ""]} \cup
    {[kind |-> "fail", at |-> id] : id \in ScanIds(k)}

\* scans with no other goroutine writing while they run
ScanNext ==
    \/ \E op \in {"MapObjects", "MapKeys", "MapStringsAtKeys"}, k \in ScanProtos :
          \E cb \in ScanCallbacks(k) : ScanStart(op, k, cb)
    \/ ScanPage
    \/ ScanVisit
    \/ ScanEnd
    \/ \E o \in ScanObjects : QuietSave(o)
    \/ \E o \in ScanObjects : QuietDelete(o)

SpecScan == Init /\ [][ScanNext]_vars

RaceObjects == {OrmTestStruct("v1", 1, ""), OrmTestStruct("v2", 0, "shh!")}

\* MapObjects with another goroutine saving and deleting entries
RaceNext ==
    \/ ScanStart("MapObjects", OrmTestStruct("value doesn't matter", 0, ""),
                 [kind |-> "note", at |-> ""])
    \/ ScanPage
    \/ ScanVisit
    \/ ScanEnd
    \/ \E o \in RaceObjects : QuietSave(o)
    \/ \E o \in RaceObjects : RaceSave(o)
    \/ \E o \in RaceObjects : RaceDelete(o)

SpecRace == Init /\ [][RaceNext]_vars

-----------------------------------------------------------------------------
(* storage/lifecycle.go: ObserveClientLaunch, a load, a change and a save  *)
(* that other goroutines may run between.                                  *)

\* calls of the storage package begun by all goroutines together
MaxCalls == 3

Calls(t) == IF "calls" \in DOMAIN tasks[t] THEN tasks[t].calls ELSE 0

RECURSIVE Begun(_)
Begun(ts) ==
    IF ts = {} THEN 0
    ELSE LET t == CHOOSE x \in ts : TRUE IN Calls(t) + Begun(ts \ {t})

NewLifecycleData(clientId, profileId) == LifecycleData("", clientId, profileId, 0)

\* the launch noted without being counted
Relaunched(l, clientType) ==
    [l EXCEPT !.f.ClientType = clientType]

\* l.ClientType = clientType; l.LaunchCount++ (the times are not modelled)
Launched(l, clientType) ==
    [l EXCEPT !.f.ClientType = clientType, !.f.LaunchCount = @ + 1]

\* ObserveClientLaunch up to and including its LoadObject
LaunchLoad(t, clientType, clientId, profileId) ==
    LET res == LoadObject(db, loadedConfig, NewLifecycleData(clientId, profileId))
        racing == \E u \in Tasks \ {t} : tasks[u].pc = "loaded"
        mine == [pc |-> IF res.err = "" \/ IsNotFound(res.err)
                          THEN "loaded" ELSE "done",
                 op |-> "ObserveClientLaunch",
                 clientType |-> clientType,
                 l |-> IF IsNotFound(res.err)
                         THEN NewLifecycleData(clientId, profileId)
                         ELSE res.out,
                 calls |-> Calls(t) + 1,
                 raced |-> racing \/ ("raced" \in DOMAIN tasks[t] /\ tasks[t].raced)]
    IN  /\ tasks[t].pc \in {"idle", "done"}
        /\ Begun(Tasks) < MaxCalls
        /\ tasks' = [u \in Tasks |->
                        IF u = t THEN mine
                        ELSE IF tasks[u].pc = "loaded"
                          THEN [tasks[u] EXCEPT !.raced = TRUE]
                        ELSE tasks[u]]
        /\ UNCHANGED <<ormVars, configVars, fetch, scan, monitors>>

\* ObserveClientLaunch from its change of l to its SaveObject
LaunchSave(t) ==
    /\ tasks[t].pc = "loaded"
    /\ tasks[t].op = "ObserveClientLaunch"
    /\ db' = SaveObject(db, loadedConfig,
                        Launched(tasks[t].l, tasks[t].clientType)).db
    /\ tasks' = [tasks EXCEPT ![t].pc = "done"]
    /\ UNCHANGED <<ret, shadow, configVars, fetch, scan, monitors>>

LaunchNext ==
    \/ \E t \in Tasks, clientType \in {"ios", "mac"} :
          LaunchLoad(t, clientType, "c1", "p1")
    \/ \E t \in Tasks : LaunchSave(t)

SpecLaunch == Init /\ [][LaunchNext]_vars

-----------------------------------------------------------------------------
(* Hashes.  A hash is kept as the set of its <<field, value>> pairs; the   *)
(* backend drops a hash that has no field left.                            *)

StorableMap(id) ==
    [type |-> "StorableMap", nil |-> FALSE, f |-> [id |-> id]]

HashEntry(pairs) ==
    [kind |-> "hash", bytes |-> Raw(""), members |-> pairs, elems |-> <<>>,
     ttl |-> FALSE]

\* HGET: nil for a missing key and for a missing field
RedisHGet(d, key, field) ==
    IF key \notin DOMAIN d THEN [val |-> "", err |-> RedisNil]
    ELSE IF d[key].kind # "hash" THEN [val |-> "", err |-> WrongType]
    ELSE IF \E p \in d[key].members : p[1] = field
      THEN [val |-> (CHOOSE p \in d[key].members : p[1] = field)[2],
            err |-> ""]
    ELSE [val |-> "", err |-> RedisNil]

\* HSET: a missing key becomes a hash; the field's value is replaced
RedisHSet(d, key, field, v) ==
    IF key \notin DOMAIN d
      THEN [db |-> Put(d, key, HashEntry({<<field, v>>})), err |-> ""]
    ELSE IF d[key].kind # "hash" THEN [db |-> d, err |-> WrongType]
    ELSE [db |-> [d EXCEPT ![key].members =
                     Without(@, field) \cup {<<field, v>>}],
          err |-> ""]

RedisHDel(d, key, field) ==
    IF key \notin DOMAIN d THEN [db |-> d, err |-> ""]
    ELSE IF d[key].kind # "hash" THEN [db |-> d, err |-> WrongType]
    ELSE IF Without(d[key].members, field) = {}
      THEN [db |-> Drop(d, key), err |-> ""]
    ELSE [db |-> [d EXCEPT ![key].members = Without(@, field)], err |-> ""]

\* HGETALL: a missing key is an empty hash
RedisHGetAll(d, key) ==
    IF key \notin DOMAIN d THEN [val |-> {}, err |-> ""]
    ELSE IF d[key].kind # "hash" THEN [val |-> {}, err |-> WrongType]
    ELSE [val |-> d[key].members, err |-> ""]

\* MapGet returning nothing and nil for whatever the backend answers
SwallowingMapGet(d, cfg, obj, k) ==
    LET res == RedisHGet(d, Key(cfg, obj), k)
    IN  [val |-> IF res.err # "" THEN "" ELSE res.val,
         err |-> "",
         cmd |-> Cmd("HGET", Key(cfg, obj))]

\* MapGet handing the backend's nil on as an error
StrictMapGet(d, cfg, obj, k) ==
    LET res == RedisHGet(d, Key(cfg, obj), k)
    IN  [val |-> IF res.err # "" THEN "" ELSE res.val,
         err |-> res.err,
         cmd |-> Cmd("HGET", Key(cfg, obj))]

MapGet(d, cfg, obj, k) ==
    LET res == RedisHGet(d, Key(cfg, obj), k)
    IN  [val |-> IF res.err # "" THEN "" ELSE res.val,
         err |-> IF res.err = RedisNil THEN "" ELSE res.err,
         cmd |-> Cmd("HGET", Key(cfg, obj))]

MapSet(d, cfg, obj, k, v) ==
    [db |-> RedisHSet(d, Key(cfg, obj), k, v).db,
     err |-> RedisHSet(d, Key(cfg, obj), k, v).err,
     cmd |-> Cmd("HSET", Key(cfg, obj))]

MapGetAll(d, cfg, obj) ==
    [val |-> RedisHGetAll(d, Key(cfg, obj)).val,
     err |-> RedisHGetAll(d, Key(cfg, obj)).err,
     cmd |-> Cmd("HGETALL", Key(cfg, obj))]

MapRemove(d, cfg, obj, k) ==
    [db |-> RedisHDel(d, Key(cfg, obj), k).db,
     err |-> RedisHDel(d, Key(cfg, obj), k).err,
     cmd |-> Cmd("HDEL", Key(cfg, obj))]

\* the fields the caller has set and not removed, by its own notes
Noted(k) ==
    IF ShadowKey(loadedConfig, k) \in DOMAIN shadow
      THEN shadow[ShadowKey(loadedConfig, k)].members
      ELSE {}

CallMapGet(k, field) ==
    LET res == MapGet(db, loadedConfig, k, field)
    IN  /\ ret' = [field |-> field] @@
                  Returned("MapGet", k, 0, Raw(res.val), res.err, k, res.cmd)
        /\ UNCHANGED <<db, shadow>>
        /\ OrmFrame

CallMapSet(k, field, v) ==
    LET res == MapSet(db, loadedConfig, k, field, v)
    IN  /\ db' = res.db
        /\ ret' = [field |-> field] @@
                  Returned("MapSet", k, 0, Raw(v), res.err, k, res.cmd)
        /\ shadow' =
             IF res.err = ""
               THEN Put(shadow, ShadowKey(loadedConfig, k),
                        Saved(Raw(""),
                              Without(Noted(k), field) \cup {<<field, v>>}, k))
               ELSE shadow
        /\ OrmFrame

CallMapGetAll(k) ==
    LET res == MapGetAll(db, loadedConfig, k)
    IN  /\ ret' = [all |-> res.val] @@
                  Returned("MapGetAll", k, 0, Raw(""), res.err, k, res.cmd)
        /\ UNCHANGED <<db, shadow>>
        /\ OrmFrame

CallMapRemove(k, field) ==
    LET res == MapRemove(db, loadedConfig, k, field)
    IN  /\ db' = res.db
        /\ ret' = [field |-> field] @@
                  Returned("MapRemove", k, 0, Raw(""), res.err, k, res.cmd)
        /\ shadow' =
             IF res.err = ""
               THEN Put(shadow, ShadowKey(loadedConfig, k),
                        Saved(Raw(""), Without(Noted(k), field), k))
               ELSE shadow
        /\ OrmFrame

\* TestOrmTestMap's key, and a second one
MapKeySet == {StorableMap("ormTestMap"), StorableMap("ormTestMap2")}

\* TestOrmTestMap's fields
MapFields == {"nonexistent", "testKey", "anotherKey"}

HashNext ==
    \/ \E k \in MapKeySet, field \in MapFields : CallMapGet(k, field)
    \/ \E k \in MapKeySet, field \in MapFields \ {"nonexistent"},
          v \in {"testValue", "anotherValue"} : CallMapSet(k, field, v)
    \/ \E k \in MapKeySet : CallMapGetAll(k)
    \/ \E k \in MapKeySet, field \in MapFields : CallMapRemove(k, field)
    \/ \E k \in MapKeySet : CallDeleteStorage(k)

SpecHash == Init /\ [][HashNext]_vars

\* keys that callers use with the operations of several families
ReplyNext ==
    \/ \E k \in MapKeySet : CallStoreString(k, Raw("testValue"))
    \/ \E k \in MapKeySet : CallFetchString(k)
    \/ \E k \in MapKeySet : CallMapSet(k, "testKey", "testValue")
    \/ \E k \in MapKeySet : CallMapGet(k, "testKey")
    \/ \E k \in MapKeySet : CallMapGetAll(k)
    \/ \E k \in MapKeySet : CallMapRemove(k, "testKey")
    \/ \E k \in MapKeySet : CallAddScoredMember(k, 1, "testKey")
    \/ \E k \in MapKeySet : CallGetMemberScore(k, "testKey")
    \/ \E k \in MapKeySet : CallDeleteStorage(k)

SpecReply == Init /\ [][ReplyNext]_vars

-----------------------------------------------------------------------------
(* storage/admin.go: sessions.  StartSession is two backend commands.      *)

sessionId(id) == [type |-> "sessionId", nil |-> FALSE, f |-> [id |-> id]]

\* StartSession up to and including its StoreString; id is the new uuid
SessionStore(t, id, userId) ==
    /\ tasks[t].pc \in {"idle", "done", "failed"}
    /\ Begun(Tasks) < MaxCalls
    /\ Key(loadedConfig, sessionId(id)) \notin DOMAIN db
    /\ db' = StoreString(db, loadedConfig, sessionId(id), Raw(userId)).db
    /\ tasks' = [tasks EXCEPT ![t] =
                    [pc |-> "stored", op |-> "StartSession", id |-> id,
                     calls |-> Calls(t) + 1]]
    /\ UNCHANGED <<ret, shadow, configVars, fetch, scan, monitors>>

\* StartSession's SetExpirationAt, at 4 in the morning to come
SessionExpire(t) ==
    /\ tasks[t].pc = "stored"
    /\ tasks[t].op = "StartSession"
    /\ db' = SetExpirationAt(db, loadedConfig, sessionId(tasks[t].id), 1).db
    /\ tasks' = [tasks EXCEPT ![t].pc = "done"]
    /\ UNCHANGED <<ret, shadow, configVars, fetch, scan, monitors>>

\* StartSession's SetExpirationAt failing to reach the backend, or the
\* process ending before it: the call is over, with an error or with none
SessionAbort(t) ==
    /\ tasks[t].pc = "stored"
    /\ tasks[t].op = "StartSession"
    /\ tasks' = [tasks EXCEPT ![t].pc = "failed"]
    /\ UNCHANGED <<ormVars, configVars, fetch, scan, monitors>>

SessionIds == {"s1", "s2"}

\* GetSessionUser is FetchString, DeleteSession is DeleteStorage
SessionNext ==
    \/ \E t \in Tasks, id \in SessionIds, userId \in {"u1", "u2"} :
          SessionStore(t, id, userId)
    \/ \E t \in Tasks : SessionExpire(t)
    \/ \E t \in Tasks : SessionAbort(t)
    \/ \E id \in SessionIds : CallFetchString(sessionId(id))
    \/ \E id \in SessionIds : CallDeleteStorage(sessionId(id))
    \/ \E id \in SessionIds : Expire(Key(loadedConfig, sessionId(id)))

SpecSession == Init /\ [][SessionNext]_vars

-----------------------------------------------------------------------------
(* storage/study.go: TypedLineStatList, a list whose members are encoded   *)
(* TypedLineStat values.                                                   *)

TypedLineStatList(id) ==
    [type |-> "TypedLineStatList", nil |-> FALSE, f |-> [id |-> id]]

\* vals := make([]string, len(stats)), then one append for every stat
StatVals(stats) ==
    [i \in 1 .. Len(stats) |-> Raw("")] \o
    [i \in 1 .. Len(stats) |-> ToRedis(stats[i]).bytes]

StatsPushRange(d, cfg, t, stats) ==
    PushRange(d, cfg, t, FALSE, StatVals(stats))

\* FetchAll is FetchRange(0, -1): every member is decoded, the first that
\* fails ends the call
StatsFetchAll(d, cfg, t) ==
    LET vals == IF Key(cfg, t) \in DOMAIN d THEN d[Key(cfg, t)].elems ELSE <<>>
        dec(v) == FromRedis(TypedLineStat("", 0, 0), v)
    IN  IF Key(cfg, t) \in DOMAIN d /\ d[Key(cfg, t)].kind # "list"
          THEN [val |-> <<>>, err |-> WrongType,
                cmd |-> Cmd("LRANGE", Key(cfg, t))]
        ELSE IF \E i \in 1 .. Len(vals) : dec(vals[i]).err # ""
          THEN [val |-> <<>>,
                err |-> dec(vals[CHOOSE i \in 1 .. Len(vals) :
                                    dec(vals[i]).err # ""]).err,
                cmd |-> Cmd("LRANGE", Key(cfg, t))]
        ELSE [val |-> [i \in 1 .. Len(vals) |-> dec(vals[i]).out],
              err |-> "", cmd |-> Cmd("LRANGE", Key(cfg, t))]

\* the stats the caller has pushed, by its own notes
NotedStats(t) ==
    IF ShadowKey(loadedConfig, t) \in DOMAIN shadow
      THEN shadow[ShadowKey(loadedConfig, t)].members
      ELSE <<>>

CallStatsPushRange(t, stats) ==
    LET res == StatsPushRange(db, loadedConfig, t, stats)
    IN  /\ Stored(db, DOMAIN db) < MaxList
        /\ db' = res.db
        /\ ret' = [stats |-> stats,
                   before |-> ListOf(db, Key(loadedConfig, t))] @@
                  Returned("TypedLineStatList.PushRange", t, 0, Raw(""),
                           res.err, t, res.cmd)
        /\ shadow' =
             IF res.err = ""
               THEN Put(shadow, ShadowKey(loadedConfig, t),
                        Saved(Raw(""), NotedStats(t) \o stats, t))
               ELSE shadow
        /\ OrmFrame

CallStatsFetchAll(t) ==
    LET res == StatsFetchAll(db, loadedConfig, t)
    IN  /\ ret' = [stats |-> res.val] @@
                  Returned("TypedLineStatList.FetchAll", t, 0, Raw(""),
                           res.err, t, res.cmd)
        /\ UNCHANGED <<db, shadow>>
        /\ OrmFrame

\* the lines of one request of a participant
StatBatches ==
    {<<TypedLineStat("u1", 1, 5)>>,
     <<TypedLineStat("u1", 0, 3)>>,
     <<TypedLineStat("u1", 2, 0)>>,
     <<TypedLineStat("u1", 0, 3), TypedLineStat("u1", 2, 0)>>}

StatsNext ==
    \/ \E upn \in {"u1", "u2"}, stats \in StatBatches :
          CallStatsPushRange(TypedLineStatList(upn), stats)
    \/ \E upn \in {"u1", "u2"} : CallStatsFetchAll(TypedLineStatList(upn))
    \/ \E upn \in {"u1", "u2"} : CallDeleteStorage(TypedLineStatList(upn))

SpecStats == Init /\ [][StatsNext]_vars

-----------------------------------------------------------------------------
(* storage/monitor.go: the speech monitors.  A monitored profile has a     *)
(* SpeechMonitor record and is a member of the sorted set speech-monitors; *)
(* every operation is several backend commands, one step each.             *)

speechMonitors == StorableSortedSet("speech-monitors")

\* a goroutine entering one of the calls: where it is, and its locals
MonitorTask(t, op, pc, profileId, apiKey, s) ==
    [tasks EXCEPT ![t] =
        [pc |-> pc, op |-> op, profileId |-> profileId, apiKey |-> apiKey,
         s |-> s, calls |-> Calls(t) + 1]]

\* what the steps of the monitor calls leave alone
MonitorFrame == UNCHANGED <<ret, shadow, configVars, fetch, scan, monitors>>

\* EnsureMonitor up to and including its GetMemberScore
EnsureMonitor(t, profileId, apiKey) ==
    LET member == GetMemberScore(db, loadedConfig, speechMonitors,
                                 profileId).err = ""
        pc == IF member
                THEN IF apiKey = "" THEN "remove" ELSE "load"
                ELSE IF apiKey = "" THEN "done" ELSE "create"
    IN  /\ tasks[t].pc \in {"idle", "done"}
        /\ Begun(Tasks) < MaxCalls
        /\ tasks' = MonitorTask(t, "EnsureMonitor", pc, profileId, apiKey,
                                SpeechMonitor(profileId, apiKey, 0))
        /\ UNCHANGED db
        /\ MonitorFrame

\* the commands of EnsureMonitor after the first, one at a step
EnsureStep(t) ==
    LET me == tasks[t]
        loaded == LoadObject(db, loadedConfig,
                             SpeechMonitor(me.profileId, "", 0))
    IN  /\ me.pc \in {"load", "save", "create", "add"}
        /\ me.op = "EnsureMonitor"
        /\ MonitorFrame
        /\ CASE me.pc = "load" ->
                  /\ tasks' = [tasks EXCEPT
                        ![t].pc = IF loaded.err # "" THEN "done"
                                  ELSE IF loaded.out.f.ApiKey # me.apiKey
                                    THEN "save" ELSE "done",
                        ![t].s = IF loaded.err # "" THEN @
                                 ELSE [loaded.out EXCEPT !.f.ApiKey = me.apiKey]]
                  /\ UNCHANGED db
             [] me.pc = "save" ->
                  /\ db' = SaveObject(db, loadedConfig, me.s).db
                  /\ tasks' = [tasks EXCEPT ![t].pc = "done"]
             [] me.pc = "create" ->
                  /\ db' = SaveObject(db, loadedConfig, me.s).db
                  /\ tasks' = [tasks EXCEPT ![t].pc = "add"]
             [] me.pc = "add" ->
                  /\ db' = AddScoredMember(db, loadedConfig, speechMonitors, 0,
                                           me.profileId).db
                  /\ tasks' = [tasks EXCEPT ![t].pc = "done"]

\* RemoveMonitor called from outside: its RemoveScoredMember
RemoveMonitor(t, profileId) ==
    /\ tasks[t].pc \in {"idle", "done"}
    /\ Begun(Tasks) < MaxCalls
    /\ db' = RemoveScoredMember(db, loadedConfig, speechMonitors, profileId).db
    /\ tasks' = MonitorTask(t, "RemoveMonitor", "delete", profileId, "",
                            SpeechMonitor(profileId, "", 0))
    /\ MonitorFrame

\* RemoveMonitor, wherever it was called from, one command at a step
RemoveStep(t) ==
    LET me == tasks[t]
    IN  /\ me.pc \in {"remove", "delete"}
        /\ MonitorFrame
        /\ IF me.pc = "remove"
             THEN /\ db' = RemoveScoredMember(db, loadedConfig, speechMonitors,
                                              me.profileId).db
                  /\ tasks' = [tasks EXCEPT ![t].pc = "delete"]
             ELSE /\ db' = DeleteStorage(db, loadedConfig,
                                         SpeechMonitor(me.profileId, "", 0)).db
                  /\ tasks' = [tasks EXCEPT ![t].pc = "done"]

\* updateMonitors: FetchMonitorsForUpdate finds the profile in the sorted
\* set and loads its record
FetchMonitor(t, profileId) ==
    LET loaded == LoadObject(db, loadedConfig, SpeechMonitor(profileId, "", 0))
    IN  /\ tasks[t].pc \in {"idle", "done"}
        /\ Begun(Tasks) < MaxCalls
        /\ GetMemberScore(db, loadedConfig, speechMonitors, profileId).err = ""
        /\ tasks' = MonitorTask(t, "Update",
                                IF loaded.err # "" THEN "done" ELSE "check",
                                profileId, "", loaded.out)
        /\ UNCHANGED db
        /\ MonitorFrame

\* SpeechMonitor.Update: the account check (answer: ok, invalid for
\* ElevenInvalidApiKeyError, failed for any other error), the SaveObject and
\* the AddScoredMember, one at a step
UpdateStep(t, answer, nextRenew) ==
    LET me == tasks[t]
    IN  /\ me.pc \in {"check", "update", "score"}
        /\ me.op = "Update"
        /\ MonitorFrame
        /\ CASE me.pc = "check" ->
                  /\ tasks' = [tasks EXCEPT
                        ![t].pc = CASE answer = "ok" -> "update"
                                    [] answer = "invalid" -> "remove"
                                    [] OTHER -> "done",
                        ![t].s = IF answer = "ok"
                                   THEN [@ EXCEPT !.f.NextRenew = nextRenew]
                                   ELSE @]
                  /\ UNCHANGED db
             [] me.pc = "update" ->
                  /\ db' = SaveObject(db, loadedConfig, me.s).db
                  /\ tasks' = [tasks EXCEPT ![t].pc = "score"]
             [] me.pc = "score" ->
                  /\ db' = AddScoredMember(db, loadedConfig, speechMonitors,
                                           me.s.f.NextRenew, me.s.f.ProfileId).db
                  /\ tasks' = [tasks EXCEPT ![t].pc = "done"]

MonitorNext ==
    \/ \E t \in Tasks, apiKey \in {"", "k1", "k2"} : EnsureMonitor(t, "p1", apiKey)
    \/ \E t \in Tasks : EnsureStep(t)
    \/ \E t \in Tasks : RemoveMonitor(t, "p1")
    \/ \E t \in Tasks : RemoveStep(t)
    \/ \E t \in Tasks : FetchMonitor(t, "p1")
    \/ \E t \in Tasks, answer \in {"ok", "invalid", "failed"} :
          UpdateStep(t, answer, 1)

SpecMonitor == Init /\ [][MonitorNext]_vars

-----------------------------------------------------------------------------
(* lifecycle/server.go: startMonitors.  Channels are numbered: 0 is the    *)
(* one startMonitors makes and closes, i is the one update i makes.  The   *)
(* variable updateChannel is written by the update goroutines and read by  *)
(* the stop function with nothing that orders the accesses.                *)

\* how often the hourly timer fires
MaxTicks == 1

\* what the steps of the monitors leave alone
MonitorsFrame == UNCHANGED <<ormVars, configVars, fetch, scan, tasks>>

\* the goroutine of startMonitors: go doUpdate()
LoopSpawn ==
    /\ monitors.loop = "spawn"
    /\ monitors' = [monitors EXCEPT
          !.updates = Append(@, [pc |-> "start", ch |-> 0]),
          !.loop = "select"]
    /\ MonitorsFrame

\* the goroutine of startMonitors: case <-timer.C
LoopTick ==
    /\ monitors.loop = "select"
    /\ monitors.ticks < MaxTicks
    /\ monitors' = [monitors EXCEPT !.ticks = @ + 1, !.loop = "spawn"]
    /\ MonitorsFrame

\* the goroutine of startMonitors: case <-stopChannel
LoopStop ==
    /\ monitors.loop = "select"
    /\ monitors.stopClosed
    /\ monitors' = [monitors EXCEPT !.loop = "returned"]
    /\ MonitorsFrame

\* doUpdate, one statement at a step: updateChannel = make(chan any); defer
\* close(updateChannel), which reads the variable; updateMonitors(ctx) and
\* the deferred close, which panics on a channel that is closed
DoUpdate(i) ==
    LET me == monitors.updates[i]
    IN  /\ me.pc \in {"start", "made", "running"}
        /\ MonitorsFrame
        /\ CASE me.pc = "start" ->
                  monitors' = [monitors EXCEPT !.updateChannel = i,
                                               !.written = @ \cup {i},
                                               !.updates[i].pc = "made"]
             [] me.pc = "made" ->
                  monitors' = [monitors EXCEPT
                                  !.updates[i].ch = monitors.updateChannel,
                                  !.updates[i].pc = "running"]
             [] me.pc = "running" ->
                  monitors' = [monitors EXCEPT
                                  !.closed = @ \cup {me.ch},
                                  !.updates[i].pc =
                                      IF me.ch \in monitors.closed
                                        THEN "panicked" ELSE "finished"]

\* the stop function: close(stopChannel)
StopClose ==
    /\ monitors.stop.pc = "idle"
    /\ monitors' = [monitors EXCEPT !.stopClosed = TRUE,
                                    !.stop.pc = "select"]
    /\ MonitorsFrame

\* the stop function entering its select: it reads updateChannel once; the
\* read races with the writes of the updates, so it may see any channel the
\* variable has held
StopSelect(ch) ==
    /\ monitors.stop.pc = "select"
    /\ ch \in monitors.written
    /\ monitors' = [monitors EXCEPT !.stop.pc = "waiting", !.stop.ch = ch]
    /\ MonitorsFrame

\* the stop function: case <-updateChannel, or case <-ctx.Done() after ten
\* seconds
StopReturn ==
    /\ monitors.stop.pc = "waiting"
    /\ monitors' = [monitors EXCEPT
          !.stop.pc = "returned",
          !.stop.err = IF monitors.stop.ch \in monitors.closed
                         THEN "" ELSE "context deadline exceeded"]
    /\ MonitorsFrame

MonitorsNext ==
    \/ LoopSpawn
    \/ LoopTick
    \/ LoopStop
    \/ \E i \in 1 .. Len(monitors.updates) : DoUpdate(i)
    \/ StopClose
    \/ \E ch \in 0 .. MaxTicks + 1 : StopSelect(ch)
    \/ StopReturn

SpecMonitors == Init /\ [][MonitorsNext]_vars

-----------------------------------------------------------------------------
(* handlers/lifecycle.go: AnnotateResponse, which every validated request  *)
(* passes through.                                                         *)

\* one half of AnnotateResponse: the NeedsNotification lookup of one kind
\* and, when it says so, the header and the WasNotified write, whose error
\* is dropped
Annotate(d, kind, profileId, clientId) ==
    LET n == NotifiedKey(kind, profileId)
        res == IsMember(d, loadedConfig, n, clientId)
        needsNotification == res.err = "" /\ ~res.val
        add == AddMembers(d, loadedConfig, n, {clientId})
    IN  [db |-> IF needsNotification THEN add.db ELSE d,
         header |-> needsNotification,
         noted |-> needsNotification /\ add.err = ""]

\* the clients the caller has put into the set of a kind since its last
\* update
Known(kind, profileId) ==
    LET t == ShadowKey(loadedConfig, NotifiedKey(kind, profileId))
    IN  IF t \in DOMAIN shadow THEN shadow[t].members ELSE {}

\* AnnotateResponse(c, clientId, profileId): speech settings, then favorites
AnnotateResponse(clientId, profileId) ==
    LET speech == Annotate(db, "Speech", profileId, clientId)
        favorites == Annotate(speech.db, "Favorites", profileId, clientId)
        note(sh, kind, did) ==
            IF ~did THEN sh
            ELSE LET n == NotifiedKey(kind, profileId)
                     t == ShadowKey(loadedConfig, n)
                 IN  Put(sh, t,
                         Saved(Raw(""),
                               (IF t \in DOMAIN sh THEN sh[t].members
                                                   ELSE {}) \cup {clientId},
                               n))
    IN  /\ db' = favorites.db
        /\ shadow' = note(note(shadow, "Speech", speech.noted),
                          "Favorites", favorites.noted)
        /\ ret' = [headers |-> {kind \in UpdateKinds :
                                  IF kind = "Speech" THEN speech.header
                                                     ELSE favorites.header},
                   due |-> {kind \in UpdateKinds :
                              clientId \notin Known(kind, profileId)},
                   updated |-> {kind \in UpdateKinds :
                                  Known(kind, profileId) # {}}]
                  @@ Returned("AnnotateResponse",
                              NotifiedKey("Speech", profileId), 0,
                              Raw(clientId), "",
                              NotifiedKey("Favorites", profileId), NoCmd)
        /\ OrmFrame

\* the profiles whose clients send requests
RequestProfiles == {"p1", "p2"}

AnnotateNext ==
    \/ \E kind \in UpdateKinds, p \in RequestProfiles, c \in ClientIds :
          ProfileClientDidUpdate(kind, p, c)
    \/ \E p \in RequestProfiles, c \in ClientIds : AnnotateResponse(c, p)

SpecAnnotate == Init /\ [][AnnotateNext]_vars

-----------------------------------------------------------------------------
(* storage/study.go: study participants and their enrollment.              *)

profileParticipantMap == StorableMap("profile-participant-map")

ParticipantAlreadyExistsError == "participant UPN already exists"

ParticipantNotValidError == "apiKey or voiceId not valid"

ParticipantNotAvailableError == "participant UPN not available"

\* GetStudyParticipant: nil and no error for a participant that is not
\* stored
GetStudyParticipant(d, upn) ==
    LET res == LoadObject(d, loadedConfig, StudyParticipant(upn, "", 0, "", 0))
    IN  [p |-> res.out,
         nil |-> IsNotFound(res.err),
         err |-> IF IsNotFound(res.err) THEN "" ELSE res.err]

\* what a step of the participants leaves alone
StudyFrame == UNCHANGED <<ret, shadow, configVars, fetch, scan, monitors>>

\* CreateStudyParticipant(upn)
CreateStudyParticipant(upn) ==
    LET existing == GetStudyParticipant(db, upn)
    IN  /\ db' = IF existing.err # "" \/ ~existing.nil THEN db
                 ELSE SaveObject(db, loadedConfig,
                                 StudyParticipant(upn, "", 0, "", 0)).db
        /\ UNCHANGED tasks
        /\ StudyFrame

\* GetStudyParticipant(upn) and, for a participant there is,
\* UpdateAssignment(memo); the time of the assignment is 1
UpdateAssignment(upn, memo) ==
    LET s == GetStudyParticipant(db, upn)
    IN  /\ db' = IF s.err # "" \/ s.nil THEN db
                 ELSE SaveObject(db, loadedConfig,
                                 [s.p EXCEPT !.f.Memo = memo,
                                             !.f.Assigned = 1]).db
        /\ UNCHANGED tasks
        /\ StudyFrame

\* a goroutine enters a call of the study package
StudyTask(t, op, pc, profileId, upn, p, err) ==
    /\ tasks[t].pc \in {"idle", "done"}
    /\ Begun(Tasks) < MaxCalls
    /\ tasks' = [tasks EXCEPT ![t] =
          [pc |-> pc, op |-> op, profileId |-> profileId, upn |-> upn,
           p |-> p, err |-> err, calls |-> Calls(t) + 1]]

\* EnrollStudyParticipant after its GetStudyParticipant: the checks and
\* the change of p (the time of the start is 1)
EnrollChecked(got, profileId) ==
    IF got.err # "" THEN [pc |-> "done", p |-> got.p, err |-> got.err]
    ELSE IF got.nil \/ got.p.f.Assigned = 0
      THEN [pc |-> "done", p |-> got.p, err |-> ParticipantNotAvailableError]
    ELSE IF got.p.f.ProfileId = ""
      THEN [pc |-> "loaded",
            p |-> [got.p EXCEPT !.f.ProfileId = profileId, !.f.Started = 1],
            err |-> ""]
    ELSE IF got.p.f.ProfileId = profileId
      THEN [pc |-> "loaded", p |-> [got.p EXCEPT !.f.Finished = 0],
            err |-> ""]
    ELSE [pc |-> "done", p |-> got.p, err |-> ParticipantNotAvailableError]

\* EnrollStudyParticipant up to its SaveObject
EnrollStudyParticipant(t, profileId, upn) ==
    LET c == EnrollChecked(GetStudyParticipant(db, upn), profileId)
    IN  /\ StudyTask(t, "EnrollStudyParticipant", c.pc, profileId, upn, c.p,
                     c.err)
        /\ UNCHANGED db
        /\ StudyFrame

\* EnrollStudyParticipant: its SaveObject, then its MapSet
EnrollStep(t) ==
    LET me == tasks[t]
        saved == SaveObject(db, loadedConfig, me.p)
        set == MapSet(db, loadedConfig, profileParticipantMap, me.profileId,
                      me.upn)
    IN  /\ me.pc \in {"loaded", "saved"}
        /\ me.op = "EnrollStudyParticipant"
        /\ StudyFrame
        /\ IF me.pc = "loaded"
             THEN /\ db' = saved.db
                  /\ tasks' = [tasks EXCEPT
                        ![t].pc = IF saved.err # "" THEN "done" ELSE "saved",
                        ![t].err = saved.err]
             ELSE /\ db' = set.db
                  /\ tasks' = [tasks EXCEPT ![t].pc = "done",
                                            ![t].err = set.err]

\* UnenrollStudyParticipant(profileId, upn); the time of the end is 1
UnenrollStudyParticipant(profileId, upn) ==
    LET got == GetStudyParticipant(db, upn)
        saved == SaveObject(db, loadedConfig, [got.p EXCEPT !.f.Finished = 1])
    IN  /\ db' = IF got.err # "" \/ got.nil \/ got.p.f.ProfileId # profileId
                   THEN db
                 ELSE IF saved.err # "" THEN saved.db
                 ELSE MapRemove(saved.db, loadedConfig, profileParticipantMap,
                                profileId).db
        /\ UNCHANGED tasks
        /\ StudyFrame

Upns == {"u1", "u2"}

EnrollProfiles == {"p1", "p2"}

StudyNext ==
    \/ \E upn \in Upns : CreateStudyParticipant(upn)
    \/ \E upn \in Upns : UpdateAssignment(upn, "memo")
    \/ \E t \in Tasks, profileId \in EnrollProfiles, upn \in Upns :
          EnrollStudyParticipant(t, profileId, upn)
    \/ \E t \in Tasks : EnrollStep(t)
    \/ \E profileId \in EnrollProfiles, upn \in Upns :
          UnenrollStudyParticipant(profileId, upn)

SpecStudy == Init /\ [][StudyNext]_vars

-----------------------------------------------------------------------------
(* The Environment registry: push, pop and the change callbacks.           *)

IsPush(c) == c.op \in {"PushConfig", "PushAlteredConfig"} /\ ~c.err

\* the Environment that is, or will again be, active at stack depth d
AtDepth(d) ==
    IF d = Len(configStack) THEN loadedConfig ELSE configStack[d + 1]

\* C1: a PopConfig on a non-empty stack makes the active Environment the one
\* the caller saw immediately before the matching push, and takes one level
\* off the stack; at every depth below the top the Environment that pops
\* will restore is the one noted before the push that left that depth, so n
\* pushes followed by n pops end in the Environment active at the start.
PopRestoresPushed ==
    /\ Len(seen) = Len(configStack)
    /\ \A d \in 0 .. Len(configStack) - 1 : AtDepth(d) = seen[d + 1]
    /\ (call.op = "PopConfig" /\ call.depth > 0) =>
          /\ loadedConfig = call.expect
          /\ Len(configStack) = call.depth - 1

\* a pop from depth 2 that brought back a pushed, non-baseline Environment
PopRestoresPushedWitness ==
    /\ call.op = "PopConfig"
    /\ call.depth = 2
    /\ loadedConfig # ciConfig
    /\ loadedConfig # call.before

\* C2: PopConfig on an empty stack changes neither the active Environment
\* nor the stack, and the Environment active at depth 0 is always the
\* baseline CI configuration.
OverPopIsNoOp ==
    /\ Len(configStack) = 0 => loadedConfig = ciConfig
    /\ (call.op = "PopConfig" /\ call.depth = 0) =>
          /\ loadedConfig = call.before
          /\ configStack = <<>>

\* an extra pop after an environment file had been pushed and popped
OverPopIsNoOpWitness ==
    /\ call.op = "PopConfig"
    /\ call.depth = 0
    /\ osEnv.ENVIRONMENT_NAME = "staging"
    /\ loadedConfig = ciConfig

CallbacksCurrent ==
    /\ actionState.ran = configChangeActions
    /\ \A n \in configChangeActions :
          actionState.val[n] = loadedConfig.Name \o "-test"

\* C3 as stated: every successful push and every PopConfig, whatever the
\* stack depth, has run every registered callback when it returns, and each
\* callback saw the Environment active after the call.
EveryPushAndPopRunsCallbacks ==
    (IsPush(call) \/ call.op = "PopConfig") => CallbacksCurrent

\* C3 as amended: every successful push and every PopConfig on a non-empty
\* stack has run every registered callback when it returns, each seeing the
\* Environment active after the transition; a PopConfig on an empty stack
\* returns without running any callback.
TransitionRunsCallbacks ==
    /\ (IsPush(call) \/ (call.op = "PopConfig" /\ call.depth > 0)) =>
          CallbacksCurrent
    /\ (call.op = "PopConfig" /\ call.depth = 0) => actionState.ran = {}

\* a pop to a pushed Environment with both callbacks registered
TransitionRunsCallbacksWitness ==
    /\ call.op = "PopConfig"
    /\ call.depth = 2
    /\ configChangeActions = ActionNames
    /\ loadedConfig.Name = "AlteredTestConfig"
    /\ call.before.Name = "staging"
    /\ actionState.val["test"] = "AlteredTestConfig-test"

-----------------------------------------------------------------------------
(* Stored values and the active Environment.                               *)

LoadsNotFound(d, o) == IsNotFound(LoadObject(d, loadedConfig, o).err)

Range(seq) == {seq[i] : i \in 1..Len(seq)}

\* the active Environment holds no value for key k: FetchString returns the
\* empty text, LoadObject a NotFoundError
IsAbsent(k) ==
    IF k.type = "StorableString"
      THEN FetchString(db, loadedConfig, k).val = Raw("")
      ELSE LoadsNotFound(db, k)

ShowsSaved(k, entry) ==
    IF k.type = "StorableString"
      THEN /\ FetchString(db, loadedConfig, k).err = ""
           /\ FetchString(db, loadedConfig, k).val = entry.bytes
      ELSE /\ LoadObject(db, loadedConfig, k).err = ""
           /\ LoadObject(db, loadedConfig, k).out = entry.obj

KeyTypesHaveOwnKeys ==
    \A t1 \in DOMAIN shadow : \A t2 \in DOMAIN shadow :
      (t1[1] = t2[1] /\ t1[3] = t2[3] /\ t1[2] # t2[2]) =>
          TripleKey(t1) # TripleKey(t2)

-----------------------------------------------------------------------------
(* Objects: SaveObject, LoadObject, DeleteStorage and expiration.          *)

\* C6: a LoadObject of a key at which the caller last saved object o (with
\* no write, deletion or expiry of the key since) succeeds and leaves the
\* object handed in equal to o in every field.
SaveThenLoadYieldsSaved ==
    (/\ ret.name = "LoadObject"
     /\ ShadowKey(loadedConfig, ret.obj) \in DOMAIN shadow) =>
        /\ ret.err = ""
        /\ ret.out = shadow[ShadowKey(loadedConfig, ret.obj)].obj

\* C7: LoadObject on a key that holds no value returns an error that is
\* NotFoundError and leaves every field of the object handed in as it was.
LoadMissingIsNotFound ==
    (ret.name = "LoadObject" /\ ~ret.present) =>
        /\ IsNotFound(ret.err)
        /\ ret.out = ret.obj

\* a load of a missing record into an object with a non-zero field, while
\* other keys hold values
LoadMissingIsNotFoundWitness ==
    /\ ret.name = "LoadObject"
    /\ ~ret.present
    /\ ret.obj = LifecycleData("", "c1", "p1", 1)
    /\ ret.out.f.LaunchCount = 1
    /\ DOMAIN db # {}

SameKey(a, b) == a.type = b.type /\ StorageId(a) = StorageId(b)

\* C8: when DeleteStorage(o) has succeeded, LoadObject into any object with
\* o's key returns NotFound; and a key for which LoadObject returns NotFound
\* keeps doing so until a SaveObject at that key succeeds.
DeletedStaysNotFound ==
    /\ [](\A o \in Objects :
            (/\ ret.name = "DeleteStorage"
             /\ ret.err = ""
             /\ SameKey(o, ret.obj)) => LoadsNotFound(db, o))
    /\ [][\A o \in Objects :
            (LoadsNotFound(db, o) /\ ~LoadsNotFound(db', o)) =>
                /\ ret'.name = "SaveObject"
                /\ ret'.err = ""
                /\ SameKey(o, ret'.obj)]_vars

\* a successful delete of a record that was stored, other keys remaining
DeletedStaysNotFoundWitness ==
    /\ ret.name = "DeleteStorage"
    /\ ret.err = ""
    /\ ret.present
    /\ ret.obj.type = "LifecycleData"
    /\ DOMAIN db # {}

\* C9: DeleteStorage on a key whose StorageId() is empty returns an error,
\* issues no backend command and leaves every stored entry as it was.
EmptyIdDeleteIsRefused ==
    /\ []((ret.name = "DeleteStorage" /\ StorageId(ret.obj) = "") =>
            (ret.err # "" /\ ret.cmd = NoCmd))
    /\ [][(ret'.name = "DeleteStorage" /\ StorageId(ret'.obj) = "") =>
            db' = db]_vars

\* a refused delete while an entry is stored at prefix + StoragePrefix()
EmptyIdDeleteIsRefusedWitness ==
    /\ ret.name = "DeleteStorage"
    /\ StorageId(ret.obj) = ""
    /\ ret.present
    /\ Key(loadedConfig, ret.obj) \in DOMAIN db

\* C10: SetExpiration and SetExpirationAt on a key whose StorageId() is
\* empty return an error and issue no backend command.
EmptyIdExpireIsRefused ==
    (/\ ret.name \in {"SetExpiration", "SetExpirationAt"}
     /\ StorageId(ret.obj) = "") =>
        (ret.err # "" /\ ret.cmd = NoCmd)

-----------------------------------------------------------------------------
(* The value codec.                                                        *)

\* C11: for two values a and b of one codec type, b.FromRedis(a.ToRedis())
\* succeeds and leaves b equal to a in every field, also in the fields that
\* are zero in a and not in b.
FromRedisReplaces ==
    ret.name = "RedisValueTester" =>
        (ret.err = "" /\ ret.out = ret.from)

-----------------------------------------------------------------------------
(* Sorted sets and lists.                                                  *)

Scored(d, k, member) ==
    /\ Key(loadedConfig, k) \in DOMAIN d
    /\ \E p \in d[Key(loadedConfig, k)].members : p[1] = member

\* C12: GetMemberScore for a member the sorted set does not hold, also when
\* the sorted set was never written, returns an error that is NotFoundError.
MissingMemberIsNotFound ==
    (ret.name = "GetMemberScore" /\ ~Scored(db, ret.obj, ret.val.s)) =>
        IsNotFound(ret.err)

\* C13: MoveOne takes one element from the chosen end of src, puts that
\* element at the chosen end of dst in the same step and returns it; with
\* nothing in src it returns an error and leaves both lists as they were.
MoveOneMovesOne ==
    ret.name = "MoveOne" =>
      LET s == Key(loadedConfig, ret.obj)
          t == Key(loadedConfig, ret.out)
          n == Len(ret.srcBefore)
          e == IF ret.srcLeft THEN ret.srcBefore[1] ELSE ret.srcBefore[n]
          rest == IF ret.srcLeft THEN SubSeq(ret.srcBefore, 2, n)
                                 ELSE SubSeq(ret.srcBefore, 1, n - 1)
          onto == IF s = t THEN rest ELSE ret.dstBefore
      IN  IF n = 0
            THEN /\ ret.err # ""
                 /\ ListOf(db, s) = ret.srcBefore
                 /\ ListOf(db, t) = ret.dstBefore
            ELSE /\ ret.err = ""
                 /\ ret.val = Raw(e)
                 /\ s # t => ListOf(db, s) = rest
                 /\ ListOf(db, t) = IF ret.dstLeft THEN <<e>> \o onto
                                                   ELSE onto \o <<e>>

\* the second move of TestMoveRange: from the right of [a, b] to the left
\* of [c]
MoveOneMovesOneWitness ==
    /\ ret.name = "MoveOne"
    /\ ret.err = ""
    /\ ~ret.srcLeft
    /\ ret.dstLeft
    /\ ret.srcBefore = <<"a", "b">>
    /\ ret.dstBefore = <<"c">>
    /\ ret.val = Raw("b")
    /\ ListOf(db, Key(loadedConfig, ret.out)) = <<"b", "c">>

\* C14: a FetchOneBlocking that succeeds returns the element at the chosen
\* end of the list and leaves the list rotated by one, that element now at
\* the opposite end, with the same elements and the same length.
FetchRotatesByOne ==
    (fetch.state = "returned" /\ fetch.err = "") =>
      LET n == Len(fetch.before)
      IN  /\ n > 0
          /\ Len(fetch.after) = n
          /\ IF fetch.onLeft
               THEN /\ fetch.val = fetch.before[1]
                    /\ fetch.after = SubSeq(fetch.before, 2, n) \o <<fetch.val>>
               ELSE /\ fetch.val = fetch.before[n]
                    /\ fetch.after =
                         <<fetch.val>> \o SubSeq(fetch.before, 1, n - 1)

\* [a, b, c] with onLeft = false: c is returned and the list is [c, a, b]
FetchRotatesByOneWitness ==
    /\ fetch.state = "returned"
    /\ fetch.err = ""
    /\ ~fetch.onLeft
    /\ ~fetch.served
    /\ fetch.before = <<"a", "b", "c">>
    /\ fetch.val = "c"
    /\ ListOf(db, fetch.key) = <<"c", "a", "b">>

\* C15: a FetchOneBlocking whose list stays empty until the timeout returns
\* an error that is not NotFoundError and leaves the list as it was; no
\* return is an empty string without an error.
TimeoutIsAnError ==
    fetch.state = "returned" =>
      /\ ~(fetch.val = "" /\ fetch.err = "")
      /\ fetch.timedOut =>
           /\ fetch.err # ""
           /\ ~IsNotFound(fetch.err)
           /\ fetch.before = <<>>
           /\ fetch.after = <<>>

TimeoutIsAnErrorWitness ==
    /\ fetch.state = "returned"
    /\ fetch.timedOut
    /\ fetch.timeout = 2
    /\ fetch.val = ""
    /\ ListOf(db, fetch.key) = <<>>

\* the list a push makes of an empty one
Pushed(members, onLeft) == IF onLeft THEN Reverse(members) ELSE members

\* C16: when elements are pushed to the list a FetchOneBlocking call is
\* blocked on, the call returns with that step: without error, not timed
\* out, with the element that the push left at the end it asked for.
PushWakesBlocked ==
    [][(fetch.state = "blocked" /\ ListOf(db', fetch.key) # <<>>) =>
          /\ ret'.name = "PushRange"
          /\ fetch'.state = "returned"
          /\ ~fetch'.timedOut
          /\ fetch'.err = ""
          /\ fetch'.val =
               IF fetch.onLeft
                 THEN Pushed(ret'.members, ret'.onLeft)[1]
                 ELSE Pushed(ret'.members, ret'.onLeft)[Len(ret'.members)]]_vars

\* TestFetchOneBlocking: blocked with onLeft = false, then a, b, c are pushed
\* at the right: c is returned and [c, a, b] remains
PushWakesBlockedWitness ==
    /\ fetch.state = "returned"
    /\ fetch.served
    /\ ~fetch.onLeft
    /\ fetch.timeout = 2
    /\ ret.name = "PushRange"
    /\ ret.members = <<"a", "b", "c">>
    /\ ~ret.onLeft
    /\ fetch.val = "c"
    /\ ListOf(db, fetch.key) = <<"c", "a", "b">>

-----------------------------------------------------------------------------
(* Scans.                                                                  *)

VisitedIds == {scan.visits[i].id : i \in 1 .. Len(scan.visits)}

Visits(id) == Cardinality({i \in 1 .. Len(scan.visits) : scan.visits[i].id = id})

SavedAt(id) == shadow[<<loadedConfig.DbKeyPrefix, scan.k.type, id>>].obj

\* errors.Is(err, target)
ErrorsIs(err, target) == err.msg = target \/ err.wraps = target

\* C17: with no other writer, a MapObjects over the saved objects of a key
\* type calls the callback once for each stored key and for no other, and at
\* each call the prototype equals the object saved at the key visited.
ScanVisitsEachSaved ==
    (scan.state = "done" /\ scan.op = "MapObjects" /\ scan.cb.kind = "note") =>
        /\ scan.err = NoErr
        /\ VisitedIds = scan.atStart
        /\ \A id \in scan.atStart : Visits(id) = 1
        /\ \A i \in 1 .. Len(scan.visits) :
               scan.visits[i].val = SavedAt(scan.visits[i].id)

\* C18: when the callback of a scan returns an error at an entry, that call
\* is the last one of the scan and the scan returns an error that wraps the
\* callback's.
CallbackErrorStopsScan ==
    (scan.cb.kind = "fail" /\ scan.cb.at \in VisitedIds) =>
        /\ scan.state = "done"
        /\ ErrorsIs(scan.err, CallbackError)
        /\ scan.visits[Len(scan.visits)].id = scan.cb.at
        /\ Visits(scan.cb.at) = 1

\* a scan over two entries that ended with the error of the first call
CallbackErrorStopsScanWitness ==
    /\ scan.state = "done"
    /\ scan.op = "MapStringsAtKeys"
    /\ scan.cb.kind = "fail"
    /\ Cardinality(scan.atStart) = 2
    /\ Len(scan.visits) = 1
    /\ scan.err.wraps = CallbackError
    /\ scan.atEnd = scan.atStart

\* C19: a MapObjects or MapKeys whose callback deletes the entry it is
\* handed visits every entry that existed when it started, returns nil and
\* leaves no entry, and a scan that starts with no entry calls the callback
\* zero times.
DeletingScanVisitsAll ==
    (scan.state = "done" /\ scan.op \in {"MapObjects", "MapKeys"}) =>
        /\ scan.cb.kind = "delete" =>
             /\ scan.err = NoErr
             /\ VisitedIds = scan.atStart
             /\ \A id \in scan.atStart : Visits(id) = 1
             /\ scan.atEnd = {}
        /\ scan.atStart = {} => scan.visits = <<>>

\* TestSaveMapDeleteOrmTester, pass 1: two saved objects, both visited and
\* deleted
DeletingScanVisitsAllWitness ==
    /\ scan.state = "done"
    /\ scan.op = "MapObjects"
    /\ scan.cb.kind = "delete"
    /\ scan.k.type = "LifecycleData"
    /\ Cardinality(scan.atStart) = 2
    /\ Len(scan.visits) = 2
    /\ scan.err = NoErr
    /\ FamilyIds(db, loadedConfig, scan.k) = {}

\* C20: a MapObjects during which another writer saves and deletes entries
\* of the family runs to its end, hands no entry to the callback more than
\* once and hands over every entry that was there, untouched, throughout.
ScanSurvivesWriters ==
    (scan.state = "done" /\ scan.op = "MapObjects") =>
        /\ scan.err = NoErr
        /\ \A id \in VisitedIds : Visits(id) = 1
        /\ \A id \in scan.atStart \ scan.touched : Visits(id) = 1

-----------------------------------------------------------------------------
(* Calls of the storage package that other goroutines run between.         *)

\* the LaunchCount stored for client c1 of profile p1
StoredLaunches ==
    LET key == Key(loadedConfig, NewLifecycleData("c1", "p1"))
    IN  IF key \in DOMAIN db /\ "LaunchCount" \in DOMAIN db[key].bytes.f
          THEN db[key].bytes.f.LaunchCount
          ELSE 0

\* C21: when no ObserveClientLaunch call is between its load and its save,
\* the stored LaunchCount is at least 1 once a call was made and never more
\* than the number of calls made, and it equals that number when no call
\* loaded while another was between its load and its save.
LaunchesCounted ==
    (\A t \in Tasks : tasks[t].pc \in {"idle", "done"}) =>
        /\ StoredLaunches <= Begun(Tasks)
        /\ Begun(Tasks) > 0 => StoredLaunches >= 1
        /\ (\A t \in Tasks : tasks[t].pc = "done" => ~tasks[t].raced) =>
               StoredLaunches = Begun(Tasks)

\* the lost update: two calls, both loaded before either saved, and the
\* count has grown by 1
LaunchesCountedWitness ==
    /\ \A t \in Tasks : tasks[t].pc = "done" /\ tasks[t].raced /\ Calls(t) = 1
    /\ \A t \in Tasks : tasks[t].l.f.LaunchCount = 0
    /\ StoredLaunches = 1

-----------------------------------------------------------------------------
(* Hashes, and what the operations make of the backend's replies.          *)

\* the error in the backend's reply to the command of the call noted in r,
\* asked of backend d: a command that fails or only reads leaves the backend
\* as it was, and one that wrote with success succeeds again
Reply(r, d) ==
    CASE r.name = "FetchString" -> RedisGet(d, r.cmd.key).err
      [] r.name = "MapGet" -> RedisHGet(d, r.cmd.key, r.field).err
      [] r.name = "MapGetAll" -> RedisHGetAll(d, r.cmd.key).err
      [] r.name = "MapSet" -> RedisHSet(d, r.cmd.key, r.field, r.val.s).err
      [] r.name = "MapRemove" -> RedisHDel(d, r.cmd.key, r.field).err
      [] r.name = "GetMemberScore" -> RedisZScore(d, r.cmd.key, r.val.s).err
      [] r.name = "AddScoredMember" ->
           RedisZAdd(d, r.cmd.key, r.secs, r.val.s).err
      [] OTHER -> ""

\* the call noted in r handed back no result
NoResult(r) ==
    CASE r.name \in {"FetchString", "MapGet"} -> r.val = Raw("")
      [] r.name = "MapGetAll" -> r.all = {}
      [] r.name = "GetMemberScore" -> r.secs = 0
      [] OTHER -> TRUE

\* the backend's error is handed back, except that the operations in lenient
\* make nothing and nil of the backend's nil
RepliesReturned(lenient) ==
    LET raw == Reply(ret, db)
    IN  IF raw = "" THEN ret.err = ""
        ELSE IF raw = RedisNil /\ ret.name \in lenient
          THEN ret.err = "" /\ NoResult(ret)
        ELSE ret.err = raw /\ NoResult(ret)

HashShowsFields ==
    /\ ret.name = "MapGet" =>
         /\ ret.err = ""
         /\ IF \E p \in Noted(ret.obj) : p[1] = ret.field
              THEN <<ret.field, ret.val.s>> \in Noted(ret.obj)
              ELSE ret.val = Raw("")
    /\ ret.name = "MapGetAll" =>
         ret.err = "" /\ ret.all = Noted(ret.obj)

\* MapGet of a field that was removed from a map that still has another
HashShowsFieldsWitness ==
    /\ ret.name = "MapGet"
    /\ ret.field = "testKey"
    /\ Noted(ret.obj) = {<<"anotherKey", "anotherValue">>}
    /\ ret.val = Raw("")
    /\ ret.err = ""

-----------------------------------------------------------------------------
(* Pushes that fail.                                                       *)

\* C23: a PushConfig that returns an error leaves the active Environment
\* and the stack as they were and runs no callback, and a PopConfig that
\* follows such a push on an empty stack changes nothing either.
FailedPushChangesNothing ==
    [][/\ (call'.op = "PushConfig" /\ call'.err) =>
            /\ loadedConfig' = loadedConfig
            /\ configStack' = configStack
            /\ actionState'.ran = {}
       /\ (/\ call.op = "PushConfig"
           /\ call.err
           /\ Len(configStack) = 0
           /\ call'.op = "PopConfig") =>
            /\ loadedConfig' = loadedConfig
            /\ configStack' = <<>>
            /\ actionState'.ran = {}]_vars

\* TestPushPopFailedConfig: a push that failed on the CI configuration,
\* with a callback registered
FailedPushChangesNothingWitness ==
    /\ call.op = "PushConfig"
    /\ call.err
    /\ call.arg = "staging"
    /\ call.depth = 0
    /\ configChangeActions # {}
    /\ loadedConfig = ciConfig
    /\ configStack = <<>>

\* C25: every session key in the store has an expiration, and a
\* GetSessionUser of a session that is not in the store finds no user.
SessionKeysExpire ==
    /\ \A id \in SessionIds :
          Key(loadedConfig, sessionId(id)) \in DOMAIN db =>
              db[Key(loadedConfig, sessionId(id))].ttl
    /\ (/\ ret.name = "FetchString"
        /\ Key(loadedConfig, ret.obj) \notin DOMAIN db) =>
           ret.val = Raw("") /\ ret.err = ""

\* C26: every member of a TypedLineStatList decodes to a TypedLineStat; a
\* PushRange of stats grows the list by Len(stats) members, and FetchAll
\* returns, without error, the stats pushed so far in the order pushed.
StatsListHoldsStats ==
    /\ \A upn \in {"u1", "u2"} :
          LET elems == ListOf(db, Key(loadedConfig, TypedLineStatList(upn)))
          IN  \A i \in 1 .. Len(elems) :
                 FromRedis(TypedLineStat("", 0, 0), elems[i]).err = ""
    /\ (ret.name = "TypedLineStatList.PushRange" /\ ret.err = "") =>
          Len(ListOf(db, Key(loadedConfig, ret.obj))) =
              Len(ret.before) + Len(ret.stats)
    /\ ret.name = "TypedLineStatList.FetchAll" =>
          ret.err = "" /\ ret.stats = NotedStats(ret.obj)

\* C27: when no EnsureMonitor, RemoveMonitor or Update call is in progress,
\* profile p1 is a member of speech-monitors if and only if a SpeechMonitor
\* record is stored for it, and a finished EnsureMonitor with an empty
\* apiKey has left it with neither.
MonitorsMatchRecords ==
    (\A t \in Tasks : tasks[t].pc \in {"idle", "done"}) =>
        /\ GetMemberScore(db, loadedConfig, speechMonitors, "p1").err = "" <=>
             Key(loadedConfig, SpeechMonitor("p1", "", 0)) \in DOMAIN db
        /\ \A t \in Tasks :
              (/\ tasks[t].pc = "done"
               /\ tasks[t].op = "EnsureMonitor"
               /\ tasks[t].apiKey = ""
               /\ \A u \in Tasks \ {t} : tasks[u].pc = "idle") =>
                  /\ GetMemberScore(db, loadedConfig, speechMonitors,
                                    "p1").err # ""
                  /\ Key(loadedConfig, SpeechMonitor("p1", "", 0))
                        \notin DOMAIN db

\* an update of the monitors is in progress
Updating ==
    \E i \in 1 .. Len(monitors.updates) :
       monitors.updates[i].pc \in {"start", "made", "running"}

\* C28: when the stop function has returned nil no update is in progress,
\* and the channel updateChannel holds is closed exactly when no update is
\* in progress.
StopWaitsForUpdates ==
    /\ (monitors.stop.pc = "returned" /\ monitors.stop.err = "") => ~Updating
    /\ monitors.updateChannel \in monitors.closed <=> ~Updating

\* C29: once a kind of update has happened for a profile, AnnotateResponse
\* for a client sets the header of that kind exactly when the client is
\* neither the one that made the latest update of that kind nor one that
\* has been given the header since, whatever happened to the other kind.
HeadersFollowUpdates ==
    ret.name = "AnnotateResponse" =>
        \A kind \in ret.updated : kind \in ret.headers <=> kind \in ret.due

\* the profiles profile-participant-map maps to a participant
EnrolledProfiles(upn) ==
    {profileId \in EnrollProfiles :
        MapGet(db, loadedConfig, profileParticipantMap, profileId).val = upn}

\* C30: at most one profile is mapped to a participant UPN in
\* profile-participant-map, and that profile is the ProfileId of the
\* participant's record.
OneProfilePerParticipant ==
    \A upn \in Upns :
       /\ Cardinality(EnrolledProfiles(upn)) <= 1
       /\ \A profileId \in EnrolledProfiles(upn) :
             /\ ~GetStudyParticipant(db, upn).nil
             /\ GetStudyParticipant(db, upn).p.f.ProfileId = profileId

====
